---- MODULE Spec2Model ----
(***************************************************************************)
(* Model of src/app_scoring.py: the price-classification and savings      *)
(* pipeline (load_and_process_data, agregar_columna_clasificacion) and    *)
(* the per-vendor analysis that the main script computes for the selected *)
(* point of sale.                                                          *)
(*                                                                         *)
(* Representation.                                                         *)
(*  - A DataFrame is a record [cols |-> set of column names,              *)
(*    rows |-> sequence of rows]; a row is a function from column name to *)
(*    cell value.  "col in df.columns" is  col \in df.cols.               *)
(*  - A text cell (address, name, geo_zone) is a sequence of tokens; the  *)
(*    tokens "," and " " are the comma and the blank, every other token   *)
(*    is a run of characters holding neither.  '' is << >>.               *)
(*  - A float cell that may be NaN (percentage as read, and the vendor_id *)
(*    and status columns a left merge brings in) is << >> for NaN and     *)
(*    <<v>> for the value v.                                               *)
(*  - A cell of base_price or percentage that holds text which float()    *)
(*    rejects is the value TextoNoNumerico, which no number of the model   *)
(*    equals; every other cell is the number that float() gives.           *)
(*  - Prices are integers; the inputs are chosen so that                  *)
(*    base_price * percentage is a multiple of 100, so every price the    *)
(*    pipeline derives is an exact integer.                               *)
(***************************************************************************)
EXTENDS Integers, Sequences, FiniteSets, TLC

VARIABLES
    df_pos_address,            \* pos_address.csv
    df_pedidos,                \* orders_delivered_pos_vendor_geozone.csv
    df_proveedores,            \* vendors_catalog.csv
    df_vendors_pos,            \* vendor_pos_relations.csv
    archivos,                  \* the names of the files that exist
    cargado,                   \* load_and_process_data() has run to its return statement
    fallo,                     \* load_and_process_data() has ended in its except branch
    pos_geo_zones,             \* result: point of sale -> zone
    df_proveedores_nacional,   \* the National subset of the catalog
    df_proveedores_regional,   \* the Regional subset of the catalog
    df_pedidos_proveedores,    \* the candidate offers, before the status merge
    df_con_precios_minimos_local, \* the table that agregar_columna_clasificacion is given
    missing_cols,              \* the columns named by the warning of line 104, {} = no warning
    llamadas,                  \* calls of load_and_process_data() made in the session
    lecturas,                  \* times the body of load_and_process_data() has run
    df_clasificado,            \* result: the classified offers
    pos_vendor_totals,         \* result: purchases per (point of sale, vendor)
    df_original,               \* result: the orders table
    pos_order_stats,           \* result: mean and number of orders per point of sale
    df_min_purchase,           \* result: the minimum purchase table
    df_vendor_dm,              \* result: the vendor directory
    df_vendors_pos_resultado,  \* result: the vendor-POS relation table
    selected_pos,              \* the point of sale chosen in the selectbox, 0 = none yet
    selectbox_mostrado,        \* a script run of the session has shown the selectbox
    fin_script,                \* how far the latest script run went before it ended or was cut
    df_vendor_analysis,        \* the per-vendor summary shown in tab1
    df_producto_analysis,      \* the per-product summary shown in tab2
    error_principal            \* the main script ended in its except branch

vars == <<df_pos_address, df_pedidos, df_proveedores, df_vendors_pos, archivos, cargado,
          fallo, pos_geo_zones, df_proveedores_nacional, df_proveedores_regional,
          df_pedidos_proveedores, df_clasificado, pos_vendor_totals, df_original,
          pos_order_stats, df_min_purchase, df_vendor_dm, df_vendors_pos_resultado,
          selected_pos, df_vendor_analysis, df_producto_analysis, error_principal,
          df_con_precios_minimos_local, missing_cols, llamadas, lecturas,
          selectbox_mostrado, fin_script>>

inputs == <<df_pos_address, df_pedidos, df_proveedores, df_vendors_pos, archivos>>

\* the tables that load_and_process_data() builds on the way and the warning
locales == <<df_proveedores_nacional, df_proveedores_regional, df_pedidos_proveedores,
             df_con_precios_minimos_local, missing_cols>>

resultados == <<pos_vendor_totals, df_original, pos_order_stats, df_min_purchase,
                df_vendor_dm, pos_geo_zones, df_clasificado, df_vendors_pos_resultado>>

(***************************************************************************)
(* Bounds of the model.                                                    *)
(***************************************************************************)
MaxPedidos == 2        \* order lines in the orders table
MaxProveedores == 3    \* rows of the vendor catalog
MaxRelaciones == 2     \* rows of the vendor-POS relation table
MaxLlamadas == 2       \* calls of load_and_process_data() in one session
MaxFilasClasificador == 2  \* rows of a table given to the classifier on its own

(***************************************************************************)
(* Generic helpers on sequences, rows and tables.                          *)
(***************************************************************************)
NaN == << >>

Mexico == <<"México">>

TextoNoNumerico == 999999

DataFrame(columns, filas) == [cols |-> columns, rows |-> filas]

EmptyDataFrame == DataFrame({}, << >>)

RECURSIVE Flatten(_)
Flatten(ss) == IF ss = << >> THEN << >> ELSE Head(ss) \o Flatten(Tail(ss))

SetMin(S) == CHOOSE m \in S : \A x \in S : m <= x

Rename(row, old, new) ==
    [k \in ((DOMAIN row) \ {old}) \cup {new} |-> IF k = new THEN row[old] ELSE row[k]]

RenameCols(columns, old, new) ==
    IF old \in columns THEN (columns \ {old}) \cup {new} ELSE columns

Project(row, columns) == [k \in columns |-> row[k]]

\* the distinct values of a sequence, in order of first appearance (Series.unique)
RECURSIVE Unique(_)
Unique(s) ==
    IF s = << >> THEN << >>
    ELSE LET r == Unique(SubSeq(s, 1, Len(s) - 1))
             x == s[Len(s)]
         IN IF \E i \in 1..Len(r) : r[i] = x THEN r ELSE Append(r, x)

(***************************************************************************)
(* obtener_geo_zone                                                        *)
(***************************************************************************)
\* address.split(', '): cut at every comma followed by a blank
RECURSIVE split(_, _, _)
split(s, i, cur) ==
    IF i > Len(s) THEN <<cur>>
    ELSE IF i < Len(s) /\ s[i] = "," /\ s[i + 1] = " "
         THEN <<cur>> \o split(s, i + 2, << >>)
         ELSE split(s, i + 1, Append(cur, s[i]))

obtener_geo_zone(address) ==
    LET partes == split(address, 1, << >>)
    IN IF Len(partes) >= 2 THEN partes[Len(partes) - 1] ELSE << >>

abreviaturas ==
    [k \in {"B.C.S.", "Qro.", "Jal.", "Pue.", "Méx.", "Oax.", "Chih.", "Coah.",
            "Mich.", "Ver.", "Chis.", "N.L.", "Hgo.", "Tlax.", "Tamps.", "Yuc.",
            "Mor.", "Sin.", "S.L.P.", "Q.R.", "Dgo.", "B.C.", "Gto.", "Camp.",
            "Tab.", "Son.", "Gro.", "Zac.", "Ags.", "Nay."} |->
        CASE k = "B.C.S." -> <<"Baja", " ", "California", " ", "Sur">>
          [] k = "Qro." -> <<"Querétaro">>
          [] k = "Jal." -> <<"Jalisco">>
          [] k = "Pue." -> <<"Puebla">>
          [] k = "Méx." -> <<"CDMX">>
          [] k = "Oax." -> <<"Oaxaca">>
          [] k = "Chih." -> <<"Chihuahua">>
          [] k = "Coah." -> <<"Coahuila", " ", "de", " ", "Zaragoza">>
          [] k = "Mich." -> <<"Michoacán", " ", "de", " ", "Ocampo">>
          [] k = "Ver." -> <<"Veracruz", " ", "de", " ", "Ignacio", " ", "de", " ", "la", " ", "Llave">>
          [] k = "Chis." -> <<"Chiapas">>
          [] k = "N.L." -> <<"Nuevo", " ", "León">>
          [] k = "Hgo." -> <<"Hidalgo">>
          [] k = "Tlax." -> <<"Tlaxcala">>
          [] k = "Tamps." -> <<"Tamaulipas">>
          [] k = "Yuc." -> <<"Yucatan">>
          [] k = "Mor." -> <<"Morelos">>
          [] k = "Sin." -> <<"Sinaloa">>
          [] k = "S.L.P." -> <<"San", " ", "Luis", " ", "Potosí">>
          [] k = "Q.R." -> <<"Quintana", " ", "Roo">>
          [] k = "Dgo." -> <<"Durango">>
          [] k = "B.C." -> <<"Baja", " ", "California">>
          [] k = "Gto." -> <<"Guanajuato">>
          [] k = "Camp." -> <<"Campeche">>
          [] k = "Tab." -> <<"Tabasco">>
          [] k = "Son." -> <<"Sonora">>
          [] k = "Gro." -> <<"Guerrero">>
          [] k = "Zac." -> <<"Zacatecas">>
          [] k = "Ags." -> <<"Aguascalientes">>
          [] k = "Nay." -> <<"Nayarit">>]

\* mutant: every abbreviation found inside the cell is replaced
reemplazar_abreviaturas_mut(zone) ==
    Flatten([i \in 1..Len(zone) |->
                IF zone[i] \in DOMAIN abreviaturas THEN abreviaturas[zone[i]] ELSE <<zone[i]>>])

\* Series.replace(abreviaturas): a cell that is exactly a key becomes its value
reemplazar_abreviaturas(zone) ==
    IF Len(zone) = 1 /\ zone[1] \in DOMAIN abreviaturas
    THEN abreviaturas[zone[1]] ELSE zone

(***************************************************************************)
(* pandas.merge, as load_and_process_data uses it (lines 412-427, 456-461).*)
(*   common: the key columns that have the same name on both sides and so  *)
(*           appear once in the result;                                    *)
(*   Match:  the equality of the join keys of a left and a right row;      *)
(*   how:    "inner" or "left".                                            *)
(* A non-key column that both sides have is suffixed _x (left) and _y      *)
(* (right).  The rows follow the left table, and for one left row the      *)
(* matching right rows follow the right table.  In a left merge the        *)
(* columns of the right side become NaN-able cells.                        *)
(***************************************************************************)
merge_overlap(left, right, common) == (left.cols \cap right.cols) \ common

merge_lname(left, right, common, c) ==
    IF c \in merge_overlap(left, right, common) THEN c \o "_x" ELSE c

merge_rname(left, right, common, c) ==
    IF c \in merge_overlap(left, right, common) THEN c \o "_y" ELSE c

merge_cols(left, right, common) ==
    {merge_lname(left, right, common, c) : c \in left.cols}
        \cup {merge_rname(left, right, common, c) : c \in right.cols \ common}

merge_lrow(left, right, common, l) ==
    [k \in {merge_lname(left, right, common, c) : c \in left.cols} |->
        l[CHOOSE c \in left.cols : merge_lname(left, right, common, c) = k]]

merge_rrow(left, right, common, how, r) ==
    [k \in {merge_rname(left, right, common, c) : c \in right.cols \ common} |->
        LET v == r[CHOOSE c \in right.cols \ common : merge_rname(left, right, common, c) = k]
        IN IF how = "left" THEN <<v>> ELSE v]

merge_nan_row(left, right, common) ==
    [k \in {merge_rname(left, right, common, c) : c \in right.cols \ common} |-> NaN]

merge(left, right, common, Match(_, _), how) ==
    DataFrame(
        merge_cols(left, right, common),
        Flatten([i \in 1..Len(left.rows) |->
            LET l  == left.rows[i]
                ms == SelectSeq(right.rows, LAMBDA r : Match(l, r))
            IN IF ms = << >>
               THEN IF how = "left"
                    THEN << merge_lrow(left, right, common, l) @@ merge_nan_row(left, right, common) >>
                    ELSE << >>
               ELSE [j \in 1..Len(ms) |->
                        merge_lrow(left, right, common, l)
                            @@ merge_rrow(left, right, common, how, ms[j])]]))

\* df[df[...] ...] (lines 408-409, 413, 419-421): the rows that pass a test
filter(df, Test(_)) == DataFrame(df.cols, SelectSeq(df.rows, Test))

\* df[col] = f(row) for every row (lines 434-436, 445-448)
assign(df, col, F(_)) ==
    DataFrame(df.cols \cup {col},
              [i \in 1..Len(df.rows) |->
                  (col :> F(df.rows[i])) @@ df.rows[i]])

\* df.drop(columns=[col])
drop(df, col) ==
    DataFrame(df.cols \ {col},
              [i \in 1..Len(df.rows) |-> Project(df.rows[i], df.cols \ {col})])

\* df.rename(columns={old: new})
rename(df, old, new) ==
    IF old \in df.cols
    THEN DataFrame(RenameCols(df.cols, old, new),
                   [i \in 1..Len(df.rows) |-> Rename(df.rows[i], old, new)])
    ELSE df

\* pd.concat([a, b], axis=0, ignore_index=True)
concat(a, b) == DataFrame(a.cols \cup b.cols, a.rows \o b.rows)

(***************************************************************************)
(* agregar_columna_clasificacion                                           *)
(***************************************************************************)
DrogueriaMinimo == "Precio droguería minimo"
VendorMinimo == "Precio vendor minimo"
VendorNoMinimo == "Precio vendor no minimo"

required_cols == {"order_id", "super_catalog_id", "precio_minimo", "precio_vendedor"}

\* the rows of the group of row r: result_df.groupby(['order_id', 'super_catalog_id'])
grupo(df, r) ==
    SelectSeq(df.rows, LAMBDA q : /\ q["order_id"] = r["order_id"]
                                  /\ q["super_catalog_id"] = r["super_catalog_id"])

\* precio_minimo = group['precio_minimo'].iloc[0]
grupo_precio_minimo(group) == group[1]["precio_minimo"]

\* mutant: the vendor price of the first row taken for the minimum of the group
grupo_min_precio_vendedor_mut(group) == group[1]["precio_vendedor"]

\* min_precio_vendedor = group['precio_vendedor'].min()
grupo_min_precio_vendedor(group) ==
    SetMin({group[i]["precio_vendedor"] : i \in 1..Len(group)})

\* mutant: the incumbent rule with <= in place of <
clasificar_mut(precio_minimo, precio_vendedor, min_precio_vendedor) ==
    IF precio_minimo <= precio_vendedor THEN DrogueriaMinimo
    ELSE IF precio_vendedor = min_precio_vendedor THEN VendorMinimo
    ELSE VendorNoMinimo

\* the if / else of the inner loop
clasificar(precio_minimo, precio_vendedor, min_precio_vendedor) ==
    IF precio_minimo < precio_vendedor THEN DrogueriaMinimo
    ELSE IF precio_vendedor = min_precio_vendedor THEN VendorMinimo
    ELSE VendorNoMinimo

\* lines 101-104: the columns that st.warning names; no warning is {}
columnas_faltantes(df) ==
    IF df.rows = << >> \/ df.cols = {} THEN {}
    ELSE required_cols \ df.cols

\* mutant: the early return of the table as it came, without the new column
agregar_columna_clasificacion_mut(df) ==
    IF df.rows = << >> \/ df.cols = {} THEN df
    ELSE IF required_cols \ df.cols # {}
         THEN df
         ELSE assign(df, "clasificacion",
                     LAMBDA r : clasificar(grupo_precio_minimo(grupo(df, r)),
                                           r["precio_vendedor"],
                                           grupo_min_precio_vendedor(grupo(df, r))))

agregar_columna_clasificacion(df) ==
    IF df.rows = << >> \/ df.cols = {} THEN df
    ELSE IF required_cols \ df.cols # {}
         THEN assign(df, "clasificacion", LAMBDA r : "")
         ELSE assign(df, "clasificacion",
                     LAMBDA r : clasificar(grupo_precio_minimo(grupo(df, r)),
                                           r["precio_vendedor"],
                                           grupo_min_precio_vendedor(grupo(df, r))))

(***************************************************************************)
(* load_and_process_data, step by step                                     *)
(***************************************************************************)
\* df_pos_address['geo_zone'] = address.apply(obtener_geo_zone); the copy of
\* the two columns; the replacement of the abbreviations
calcular_pos_geo_zones(pos_address) ==
    DataFrame({"point_of_sale_id", "geo_zone"},
              [i \in 1..Len(pos_address.rows) |->
                  [point_of_sale_id |-> pos_address.rows[i]["point_of_sale_id"],
                   geo_zone |-> reemplazar_abreviaturas(
                                    obtener_geo_zone(pos_address.rows[i]["address"]))]])

\* if 'geo_zone' in df_pedidos.columns: drop it
limpiar_pedidos(pedidos) ==
    IF "geo_zone" \in pedidos.cols THEN drop(pedidos, "geo_zone") ELSE pedidos

\* df_proveedores['percentage'].fillna(0, inplace=True)
fillna_percentage(percentage) == IF percentage = NaN THEN 0 ELSE percentage[1]

normalizar_proveedores(proveedores) ==
    assign(proveedores, "percentage", LAMBDA r : fillna_percentage(r["percentage"]))

\* mutant: the sentinel written without its accent
es_nacional_mut(r) == r["name"] = <<"Mexico">>

es_nacional(r) == r["name"] = Mexico

separar_nacional(proveedores) == filter(proveedores, es_nacional)

separar_regional(proveedores) == filter(proveedores, LAMBDA r : ~es_nacional(r))

\* mutant: >= 0 in place of > 0
unidades_positivas_mut(r) == r["unidades_pedidas"] >= 0

unidades_positivas(r) == r["unidades_pedidas"] > 0

mismo_pos(l, r) == l["point_of_sale_id"] = r["point_of_sale_id"]

\* merge with pos_geo_zones on point_of_sale_id (left), then unidades_pedidas > 0
unir_pedidos_zonas(pedidos, geo_zones) ==
    filter(merge(pedidos, geo_zones, {"point_of_sale_id"}, mismo_pos, "left"),
           unidades_positivas)

coincide_nacional(l, r) == l["super_catalog_id"] = r["super_catalog_id"]

\* mutant: the regional merge on the product alone
coincide_regional_mut(l, r) == l["super_catalog_id"] = r["super_catalog_id"]

\* left_on = [super_catalog_id, geo_zone], right_on = [super_catalog_id, name]
coincide_regional(l, r) ==
    /\ l["super_catalog_id"] = r["super_catalog_id"]
    /\ l["geo_zone"] = <<r["name"]>>

unir_nacional(pedidos_zonas, nacional) ==
    filter(merge(pedidos_zonas, nacional, {"super_catalog_id"}, coincide_nacional, "inner"),
           unidades_positivas)

unir_regional(pedidos_zonas, regional) ==
    filter(merge(pedidos_zonas, regional, {"super_catalog_id"}, coincide_regional, "inner"),
           unidades_positivas)

\* mutant: the percentage added as an amount
precio_vendedor_mut(base_price, percentage) == base_price + percentage

\* precio_vendedor = base_price + (base_price * percentage / 100)
precio_vendedor(base_price, percentage) == base_price + (base_price * percentage) \div 100

calcular_precio_vendedor(df) ==
    assign(df, "precio_vendedor", LAMBDA r : precio_vendedor(r["base_price"], r["percentage"]))

\* precio_total_vendedor = unidades_pedidas * precio_vendedor
calcular_precio_total(df) ==
    IF "precio_vendedor" \in df.cols /\ "unidades_pedidas" \in df.cols
    THEN assign(df, "precio_total_vendedor",
                LAMBDA r : r["unidades_pedidas"] * r["precio_vendedor"])
    ELSE df

\* lines 411-448: the candidate offers
calcular_pedidos_proveedores(pedidos, proveedores, geo_zones) ==
    LET zonas == unir_pedidos_zonas(limpiar_pedidos(pedidos), geo_zones)
        prov  == normalizar_proveedores(proveedores)
        nac   == calcular_precio_vendedor(unir_nacional(zonas, separar_nacional(prov)))
        reg   == calcular_precio_vendedor(unir_regional(zonas, separar_regional(prov)))
    IN calcular_precio_total(concat(reg, nac))

\* lines 450-461: the merge with vendor_pos_relations
se_hace_merge_status(df) == "vendor_id" \in df.cols /\ "point_of_sale_id" \in df.cols

merge_status(df, vendors_pos) ==
    IF se_hace_merge_status(df)
    THEN merge(rename(df, "vendor_id", "drug_manufacturer_id"),
               DataFrame({"point_of_sale_id", "vendor_id", "status"},
                         [i \in 1..Len(vendors_pos.rows) |->
                             Project(vendors_pos.rows[i],
                                     {"point_of_sale_id", "vendor_id", "status"})]),
               {"point_of_sale_id"}, mismo_pos, "left")
    ELSE df

\* lines 463-476: precio_minimo_orders, the minimum per (pos, order, product)
cols_needed == {"point_of_sale_id", "super_catalog_id", "precio_minimo", "order_id"}

min_prices(df, r) ==
    SetMin({df.rows[i]["precio_minimo"] : i \in
              {j \in 1..Len(df.rows) :
                  /\ df.rows[j]["point_of_sale_id"] = r["point_of_sale_id"]
                  /\ df.rows[j]["order_id"] = r["order_id"]
                  /\ df.rows[j]["super_catalog_id"] = r["super_catalog_id"]}})

\* lines 473-476: the left merge with min_prices; the table is not built
\* when a column of cols_needed is missing
unir_precios_minimos(df) ==
    IF cols_needed \subseteq df.cols
    THEN assign(df, "precio_minimo_orders", LAMBDA r : min_prices(df, r))
    ELSE EmptyDataFrame

\* lines 465-481, given the candidate offers after the status merge and the
\* table of line 473
clasificar_local(df, local) ==
    IF cols_needed \subseteq df.cols
    THEN agregar_columna_clasificacion(local)
    ELSE EmptyDataFrame

calcular_clasificado(df) == clasificar_local(df, unir_precios_minimos(df))

\* lines 484-504: total_compra and the totals per (point of sale, vendor);
\* groupby(...).sum() returns the groups sorted by key
RECURSIVE SumSeq(_)
SumSeq(s) == IF s = << >> THEN 0 ELSE Head(s) + SumSeq(Tail(s))

ClaveMenor(a, b) == a[1] < b[1] \/ (a[1] = b[1] /\ a[2] <= b[2])

RECURSIVE OrdenarClaves(_)
OrdenarClaves(S) ==
    IF S = {} THEN << >>
    ELSE LET m == CHOOSE a \in S : \A b \in S : ClaveMenor(a, b)
         IN <<m>> \o OrdenarClaves(S \ {m})

calcular_total_compra(pedidos) ==
    IF "total_compra" \notin pedidos.cols /\ "unidades_pedidas" \in pedidos.cols
                                          /\ "precio_minimo" \in pedidos.cols
    THEN assign(pedidos, "total_compra", LAMBDA r : r["unidades_pedidas"] * r["precio_minimo"])
    ELSE pedidos

calcular_pos_vendor_totals(pedidos) ==
    LET df_orders == calcular_total_compra(limpiar_pedidos(pedidos))
        claves == OrdenarClaves({<<df_orders.rows[i]["point_of_sale_id"], df_orders.rows[i]["vendor_id"]>> :
                                    i \in 1..Len(df_orders.rows)})
    IN IF {"point_of_sale_id", "vendor_id", "total_compra"} \subseteq df_orders.cols
       THEN DataFrame({"point_of_sale_id", "vendor_id", "total_compra"},
                [k \in 1..Len(claves) |->
                    [point_of_sale_id |-> claves[k][1],
                     vendor_id |-> claves[k][2],
                     total_compra |->
                        SumSeq([i \in 1..Len(df_orders.rows) |->
                            IF <<df_orders.rows[i]["point_of_sale_id"], df_orders.rows[i]["vendor_id"]>> = claves[k]
                            THEN df_orders.rows[i]["total_compra"] ELSE 0])]])
       ELSE DataFrame({"point_of_sale_id", "vendor_id", "total_compra"}, << >>)

(***************************************************************************)
(* load_and_process_data: the files, the steps that raise, and the except *)
(* branch                                                                  *)
(***************************************************************************)
archivos_requeridos ==
    {"pos_address.csv", "orders_delivered_pos_vendor_geozone.csv",
     "vendors_catalog.csv", "vendor_pos_relations.csv"}

todos_los_archivos == archivos_requeridos \cup {"vendors_dm.csv", "minimum_purchase.csv"}

\* load_vendors_dm: the directory, with client_id renamed vendor_id, or the
\* empty table of its except branch
ArchivoVendorsDm ==
    DataFrame({"client_id", "name", "drug_manufacturer_id"},
              << [client_id |-> 1, name |-> <<"Vendor", " ", "1">>, drug_manufacturer_id |-> 9] >>)

load_vendors_dm(ar) ==
    IF "vendors_dm.csv" \in ar
    THEN IF "client_id" \in ArchivoVendorsDm.cols /\ "vendor_id" \notin ArchivoVendorsDm.cols
         THEN rename(ArchivoVendorsDm, "client_id", "vendor_id")
         ELSE ArchivoVendorsDm
    ELSE DataFrame({"vendor_id", "name", "drug_manufacturer_id"}, << >>)

\* lines 375-378: minimum_purchase.csv, or the empty table when it is absent
ArchivoMinPurchase ==
    DataFrame({"vendor_id", "name", "min_purchase"},
              << [vendor_id |-> 1, name |-> <<"Vendor", " ", "1">>, min_purchase |-> 100] >>)

\* mutant: the absent file answered with a table without columns
cargar_min_purchase_mut(ar) ==
    IF "minimum_purchase.csv" \in ar THEN ArchivoMinPurchase
    ELSE EmptyDataFrame

cargar_min_purchase(ar) ==
    IF "minimum_purchase.csv" \in ar THEN ArchivoMinPurchase
    ELSE DataFrame({"vendor_id", "name", "min_purchase"}, << >>)

\* pd.read_csv of a file that does not exist raises (lines 368-371)
falta_archivo(ar) == archivos_requeridos \ ar # {}

\* the columns that lines 381-436 read by name: a missing one raises KeyError
falta_columna(pos_address, pedidos, proveedores) ==
    \/ {"address", "point_of_sale_id"} \ pos_address.cols # {}
    \/ {"percentage", "name", "super_catalog_id", "base_price"} \ proveedores.cols # {}
    \/ {"point_of_sale_id", "unidades_pedidas", "super_catalog_id"} \ pedidos.cols # {}

\* astype(float) at lines 435-436 raises ValueError on text that is no
\* number; it is applied to the merged tables, so to the catalog rows that
\* matched an order line
falla_astype(pedidos, proveedores, geo_zones) ==
    LET zonas == unir_pedidos_zonas(limpiar_pedidos(pedidos), geo_zones)
        prov  == normalizar_proveedores(proveedores)
        unidos == unir_nacional(zonas, separar_nacional(prov)).rows
                    \o unir_regional(zonas, separar_regional(prov)).rows
    IN \E i \in 1..Len(unidos) :
          \/ unidos[i]["base_price"] = TextoNoNumerico
          \/ unidos[i]["percentage"] = TextoNoNumerico

\* df_vendors_pos[['point_of_sale_id', 'vendor_id', 'status']] at line 458
\* raises KeyError when the relation table lacks one of the three columns
falla_merge_status(candidatos, vendors_pos) ==
    /\ se_hace_merge_status(candidatos)
    /\ {"point_of_sale_id", "vendor_id", "status"} \ vendors_pos.cols # {}

\* some step of the try block raises
falla_load(ar, pos_address, pedidos, proveedores, vendors_pos) ==
    \/ falta_archivo(ar)
    \/ falta_columna(pos_address, pedidos, proveedores)
    \/ falla_astype(pedidos, proveedores, calcular_pos_geo_zones(pos_address))
    \/ falla_merge_status(
            calcular_pedidos_proveedores(pedidos, proveedores, calcular_pos_geo_zones(pos_address)),
            vendors_pos)

\* lines 490-498: the mean, as <<sum, number>>, and the number of the order
\* totals of each point of sale
calcular_pos_order_stats(pedidos) ==
    LET df_orders == calcular_total_compra(limpiar_pedidos(pedidos))
        ordenes(pos) == {df_orders.rows[i]["order_id"] :
                            i \in {j \in 1..Len(df_orders.rows) :
                                      df_orders.rows[j]["point_of_sale_id"] = pos}}
        claves == OrdenarClaves({<<df_orders.rows[i]["point_of_sale_id"], 0>> :
                                    i \in 1..Len(df_orders.rows)})
        columnas == {"point_of_sale_id", "promedio_por_orden", "numero_ordenes"}
    IN IF {"point_of_sale_id", "order_id", "total_compra"} \subseteq df_orders.cols
       THEN DataFrame(columnas,
                [k \in 1..Len(claves) |->
                    [point_of_sale_id |-> claves[k][1],
                     promedio_por_orden |->
                        << SumSeq([i \in 1..Len(df_orders.rows) |->
                              IF df_orders.rows[i]["point_of_sale_id"] = claves[k][1]
                              THEN df_orders.rows[i]["total_compra"] ELSE 0]),
                           Cardinality(ordenes(claves[k][1])) >>,
                     numero_ordenes |-> Cardinality(ordenes(claves[k][1]))]])
       ELSE DataFrame(columnas, << >>)

\* mutant: the except branch returning a zone table that keeps its columns
resultado_vacio_mut ==
    [pos_vendor_totals |-> EmptyDataFrame, df_original |-> EmptyDataFrame,
     pos_order_stats |-> EmptyDataFrame, df_min_purchase |-> EmptyDataFrame,
     df_vendor_dm |-> EmptyDataFrame,
     pos_geo_zones |-> DataFrame({"point_of_sale_id", "geo_zone"}, << >>),
     df_clasificado |-> EmptyDataFrame, df_vendors_pos |-> EmptyDataFrame]

\* lines 508-512: empty_df returned for each of the eight outputs
resultado_vacio ==
    [pos_vendor_totals |-> EmptyDataFrame, df_original |-> EmptyDataFrame,
     pos_order_stats |-> EmptyDataFrame, df_min_purchase |-> EmptyDataFrame,
     df_vendor_dm |-> EmptyDataFrame, pos_geo_zones |-> EmptyDataFrame,
     df_clasificado |-> EmptyDataFrame, df_vendors_pos |-> EmptyDataFrame]

\* line 506: the eight outputs of a run that reaches its return statement;
\* clasificado is df_clasificado as lines 479-481 leave it
resultado_completo(ar, pos_address, pedidos, clasificado, vendors_pos) ==
    LET geo_zones == calcular_pos_geo_zones(pos_address)
    IN [pos_vendor_totals |-> calcular_pos_vendor_totals(pedidos),
        df_original |-> limpiar_pedidos(pedidos),
        pos_order_stats |-> calcular_pos_order_stats(pedidos),
        df_min_purchase |-> cargar_min_purchase(ar),
        df_vendor_dm |-> load_vendors_dm(ar),
        pos_geo_zones |-> geo_zones,
        df_clasificado |-> clasificado,
        df_vendors_pos |-> vendors_pos]

(***************************************************************************)
(* get_status_description, obtener_status_vendor                           *)
(***************************************************************************)
get_status_description(status) ==
    IF status = NaN THEN "Sin Status"
    ELSE CASE status[1] = 0 -> "Rechazado"
           [] status[1] = 1 -> "Activo"
           [] status[1] = 2 -> "Pendiente"
           [] status[1] = -1 -> "Sin conectar"
           [] OTHER -> "Status " \o ToString(status[1])

obtener_status_vendor(vendor_id, pos_id, vendors_pos) ==
    IF vendors_pos.rows = << >> \/ vendors_pos.cols = {} THEN NaN
    ELSE IF {"vendor_id", "point_of_sale_id", "status"} \subseteq vendors_pos.cols
         THEN LET relacion == SelectSeq(vendors_pos.rows,
                                  LAMBDA r : r["vendor_id"] = vendor_id /\ r["point_of_sale_id"] = pos_id)
              IN IF relacion # << >> THEN <<relacion[1]["status"]>> ELSE NaN
         ELSE NaN

(***************************************************************************)
(* The main script, tab1: the per-vendor analysis of the selected point   *)
(* of sale (lines 585-685)                                                 *)
(***************************************************************************)
\* pos_list = sorted(set(pos_vendor_totals['point_of_sale_id']))
pos_list(totals) == {totals.rows[i]["point_of_sale_id"] : i \in 1..Len(totals.rows)}

\* lines 606-610
elegir_vendor_col(df) ==
    IF "vendor_id_y" \in df.cols THEN "vendor_id_y"
    ELSE IF "vendor_id" \in df.cols THEN "vendor_id"
    ELSE "None"

\* the vendor_id column that the status merge brings in is a NaN-able column
es_nan_vendor(col, v) == col = "vendor_id" /\ v = NaN

vendor_entero(col, v) == IF col = "vendor_id" THEN v[1] ELSE v

es_de_vendor(r) == r["clasificacion"] \in {VendorMinimo, VendorNoMinimo}

\* mutant: the comparison rows looked up by product alone
filas_drogueria_mut(df_pos, row) ==
    SelectSeq(df_pos.rows,
              LAMBDA q : /\ q["super_catalog_id"] = row["super_catalog_id"]
                         /\ q["clasificacion"] = DrogueriaMinimo)

\* the rows 'Precio droguería minimo' of the same product and order
filas_drogueria(df_pos, row) ==
    SelectSeq(df_pos.rows,
              LAMBDA q : /\ q["super_catalog_id"] = row["super_catalog_id"]
                         /\ q["order_id"] = row["order_id"]
                         /\ q["clasificacion"] = DrogueriaMinimo)

\* the rows of the vendor that have a comparison row
filas_comparables(df_pos, vendor_products) ==
    SelectSeq(vendor_products, LAMBDA row : filas_drogueria(df_pos, row) # << >>)

\* mutant: >= 0 in place of > 0
incluir_vendor_mut(total_valor_drogueria) == total_valor_drogueria >= 0

\* "if total_valor_drogueria > 0": only vendors with valid comparisons
incluir_vendor(total_valor_drogueria) == total_valor_drogueria > 0

\* mutant: the thresholds of the product view applied in the vendor view
clasificar_oportunidad_mut(ahorro_total, total_valor_drogueria) ==
    IF ahorro_total * 100 > 20 * total_valor_drogueria THEN "Oportunidad Alta"
    ELSE IF ahorro_total * 100 > 10 * total_valor_drogueria THEN "Oportunidad Media"
    ELSE "Oportunidad Baja"

\* 'Clasificación' of a vendor; the percentage is ahorro_total / total_valor_drogueria * 100
clasificar_oportunidad(ahorro_total, total_valor_drogueria) ==
    IF ahorro_total * 100 > 15 * total_valor_drogueria THEN "Oportunidad Alta"
    ELSE IF ahorro_total * 100 > 5 * total_valor_drogueria THEN "Oportunidad Media"
    ELSE "Oportunidad Baja"

\* one pass of the loop "for vendor_id in productos_con_vendors[vendor_col].unique()":
\* << >> when the vendor is skipped, else the one entry appended to vendor_analysis
analizar_vendor(df_pos, productos_con_vendors, vendor_col, vendor_id, pos, vendors_pos) ==
    LET vendor_products == SelectSeq(productos_con_vendors.rows,
                                     LAMBDA r : r[vendor_col] = vendor_id)
        comp == filas_comparables(df_pos, vendor_products)
        precio_drogueria(row) == filas_drogueria(df_pos, row)[1]["valor_vendedor"]
        total_valor_drogueria == SumSeq([i \in 1..Len(comp) |-> precio_drogueria(comp[i])])
        total_valor_vendor == SumSeq([i \in 1..Len(comp) |-> comp[i]["precio_total_vendedor"]])
        ahorro_total == total_valor_drogueria - total_valor_vendor
    IN IF es_nan_vendor(vendor_col, vendor_id) THEN << >>
       ELSE IF incluir_vendor(total_valor_drogueria)
       THEN << ("Vendor ID" :> vendor_entero(vendor_col, vendor_id))
            @@ ("Status" :> get_status_description(
                     obtener_status_vendor(vendor_entero(vendor_col, vendor_id), pos, vendors_pos)))
            @@ ("Productos Únicos" :> Cardinality({comp[i]["super_catalog_id"] : i \in 1..Len(comp)}))
            @@ ("Órdenes Afectadas" :> Cardinality({comp[i]["order_id"] : i \in 1..Len(comp)}))
            @@ ("Registros con Mejor Precio" :>
                    Cardinality({i \in 1..Len(comp) :
                        comp[i]["precio_total_vendedor"] < precio_drogueria(comp[i])}))
            @@ ("Valor Actual (Droguería)" :> total_valor_drogueria)
            @@ ("Valor con Vendor" :> total_valor_vendor)
            @@ ("Ahorro Potencial" :> ahorro_total)
            @@ ("Porcentaje Ahorro" :> <<ahorro_total * 100, total_valor_drogueria>>)
            @@ ("Clasificación" :> clasificar_oportunidad(ahorro_total, total_valor_drogueria)) >>
       ELSE << >>

\* df.sort_values(col, ascending=False), with the default kind 'quicksort':
\* the rows in descending order of col.  The default sort is not a stable
\* one, and which of two rows of equal key comes first depends on the
\* numpy build and on the number of rows, so the result is any one of the
\* descending arrangements.
sort_values_desc(s, col) ==
    LET n == Len(s)
        arreglos == {f \in [1..n -> 1..n] :
                        /\ \A i, j \in 1..n : i # j => f[i] # f[j]
                        /\ \A i, j \in 1..n : i < j => s[f[i]][col] >= s[f[j]][col]}
    IN {[i \in 1..n |-> s[f[i]]] : f \in arreglos}

\* the exception that ends the main script: no vendor column, or no column
\* 'valor_vendedor' when a comparison row is looked up
falla_tab1(df_pos, vendors_pos) ==
    LET vendor_col == elegir_vendor_col(df_pos)
        productos_con_vendors == filter(df_pos, es_de_vendor)
    IN /\ productos_con_vendors.rows # << >>
       /\ \/ vendor_col = "None"
          \/ /\ "valor_vendedor" \notin df_pos.cols
             /\ \E i \in 1..Len(productos_con_vendors.rows) :
                    /\ ~es_nan_vendor(vendor_col, productos_con_vendors.rows[i][vendor_col])
                    /\ filas_drogueria(df_pos, productos_con_vendors.rows[i]) # << >>

\* the list vendor_analysis built for the selected point of sale, before it
\* is sorted; << >> when tab1 shows none
vendor_analysis(clasificado, pos, vendors_pos) ==
    LET df_pos == filter(clasificado, LAMBDA r : r["point_of_sale_id"] = pos)
        vendor_col == elegir_vendor_col(df_pos)
        productos_con_vendors == filter(df_pos, es_de_vendor)
        vendor_ids == Unique([i \in 1..Len(productos_con_vendors.rows) |->
                                  productos_con_vendors.rows[i][vendor_col]])
    IN IF clasificado.rows = << >> \/ clasificado.cols = {} \/ df_pos.rows = << >>
          \/ productos_con_vendors.rows = << >> \/ falla_tab1(df_pos, vendors_pos)
       THEN << >>
       ELSE Flatten([k \in 1..Len(vendor_ids) |->
                analizar_vendor(df_pos, productos_con_vendors, vendor_col,
                                vendor_ids[k], pos, vendors_pos)])

(***************************************************************************)
(* The main script, tab2: the per-product analysis of the selected point  *)
(* of sale (lines 809-894)                                                 *)
(***************************************************************************)
\* lines 819-823
elegir_drogueria_col(df) ==
    IF "vendor_id_x" \in df.cols THEN "vendor_id_x"
    ELSE IF "drug_manufacturer_id" \in df.cols THEN "drug_manufacturer_id"
    ELSE "None"

\* the status column that the left merge brings in is a float column when a
\* row of the table has no relation, and an integer column otherwise
status_es_float(df) ==
    \E i \in 1..Len(df.rows) : df.rows[i]["status"] = NaN

\* get_status_description(mejor_vendor['status']); a float that is not in
\* status_map prints with its decimal
get_status_description_fila(status, es_float) ==
    IF status # NaN /\ status[1] \notin {0, 1, 2, -1} /\ es_float
    THEN "Status " \o ToString(status[1]) \o ".0"
    ELSE get_status_description(status)

\* vendor_options.loc[vendor_options['precio_total_vendedor'].idxmin()]:
\* the first row that has the least total
mejor_vendor(vendor_options) ==
    LET minimo == SetMin({vendor_options[i]["precio_total_vendedor"] : i \in 1..Len(vendor_options)})
        primero == SetMin({i \in 1..Len(vendor_options) :
                              vendor_options[i]["precio_total_vendedor"] = minimo})
    IN vendor_options[primero]

\* mutant: the percentage computed also when precio_drogueria is 0 or less
porcentaje_ahorro_mejor_mut(ahorro_mejor, precio_drogueria) ==
    <<ahorro_mejor * 100, precio_drogueria>>

\* (ahorro_mejor / precio_drogueria * 100) if precio_drogueria > 0 else 0,
\* as the fraction <<numerator, denominator>>
porcentaje_ahorro_mejor(ahorro_mejor, precio_drogueria) ==
    IF precio_drogueria > 0 THEN <<ahorro_mejor * 100, precio_drogueria>> ELSE <<0, 1>>

\* 'Tipo Ahorro' of a percentage with a positive denominator
tipo_ahorro(porcentaje) ==
    IF porcentaje[1] > 20 * porcentaje[2] THEN "Alto"
    ELSE IF porcentaje[1] > 10 * porcentaje[2] THEN "Medio"
    ELSE "Bajo"

\* one pass of the inner loop, for one product and one order: << >> when the
\* pair has no comparison row, else the one entry appended to producto_analysis
analizar_producto(df_pos, productos_con_vendors, vendor_col, drogueria_col, producto_id, order_id, es_float) ==
    LET precio_drogueria_row ==
            filas_drogueria(df_pos, [super_catalog_id |-> producto_id, order_id |-> order_id])
        precio_drogueria == precio_drogueria_row[1]["valor_vendedor"]
        vendor_options == SelectSeq(productos_con_vendors.rows,
                                    LAMBDA r : /\ r["super_catalog_id"] = producto_id
                                               /\ r["order_id"] = order_id)
        mejor == mejor_vendor(vendor_options)
        ahorro_mejor == precio_drogueria - mejor["precio_total_vendedor"]
        porcentaje == porcentaje_ahorro_mejor(ahorro_mejor, precio_drogueria)
    IN IF precio_drogueria_row = << >> \/ vendor_options = << >> THEN << >>
       ELSE << ("Producto ID" :> producto_id)
            @@ ("Orden ID" :> order_id)
            @@ ("Unidades" :> precio_drogueria_row[1]["unidades_pedidas"])
            @@ ("Droguería ID" :> precio_drogueria_row[1][drogueria_col])
            @@ ("Precio Unit. Droguería" :> precio_drogueria_row[1]["precio_minimo"])
            @@ ("Precio Total Droguería" :> precio_drogueria)
            @@ ("Opciones Vendors" :> Len(vendor_options))
            @@ ("Mejor Vendor ID" :> mejor[vendor_col])
            @@ ("Status Mejor Vendor" :>
                    IF "status" \in df_pos.cols
                    THEN get_status_description_fila(mejor["status"], es_float)
                    ELSE "Sin Status")
            @@ ("Precio Unit. Mejor Vendor" :> mejor["precio_vendedor"])
            @@ ("Precio Total Mejor Vendor" :> mejor["precio_total_vendedor"])
            @@ ("Ahorro con Mejor Vendor" :> ahorro_mejor)
            @@ ("Porcentaje Ahorro" :> porcentaje)
            @@ ("Tipo Ahorro" :> tipo_ahorro(porcentaje)) >>

\* the (product, order) pairs in the order of the two nested loops
pares_producto_orden(productos_con_vendors) ==
    LET productos == Unique([i \in 1..Len(productos_con_vendors.rows) |->
                                productos_con_vendors.rows[i]["super_catalog_id"]])
        ordenes(p) == LET del_producto == SelectSeq(productos_con_vendors.rows,
                                              LAMBDA r : r["super_catalog_id"] = p)
                      IN Unique([i \in 1..Len(del_producto) |-> del_producto[i]["order_id"]])
    IN Flatten([k \in 1..Len(productos) |->
                   [j \in 1..Len(ordenes(productos[k])) |->
                       <<productos[k], ordenes(productos[k])[j]>>]])

\* the exception that ends the main script in tab2: a pair with a comparison
\* row and no incumbent column, no vendor column or no column 'valor_vendedor'
falla_tab2(df_pos) ==
    LET productos_con_vendors == filter(df_pos, es_de_vendor)
    IN /\ \E i \in 1..Len(productos_con_vendors.rows) :
            filas_drogueria(df_pos, productos_con_vendors.rows[i]) # << >>
       /\ \/ elegir_vendor_col(df_pos) = "None"
          \/ elegir_drogueria_col(df_pos) = "None"
          \/ "valor_vendedor" \notin df_pos.cols

\* the list producto_analysis built for the selected point of sale, before
\* it is sorted; << >> when tab2 shows none
producto_analysis(clasificado, pos) ==
    LET df_pos == filter(clasificado, LAMBDA r : r["point_of_sale_id"] = pos)
        productos_con_vendors == filter(df_pos, es_de_vendor)
        pares == pares_producto_orden(productos_con_vendors)
    IN IF clasificado.rows = << >> \/ clasificado.cols = {} \/ df_pos.rows = << >>
          \/ productos_con_vendors.rows = << >> \/ falla_tab2(df_pos)
       THEN << >>
       ELSE Flatten([k \in 1..Len(pares) |->
                analizar_producto(df_pos, productos_con_vendors,
                                  elegir_vendor_col(df_pos), elegir_drogueria_col(df_pos),
                                  pares[k][1], pares[k][2],
                                  "status" \in clasificado.cols /\ status_es_float(clasificado))])

(***************************************************************************)
(* The input files.  Init draws them from eight bounded families; each      *)
(* varies the part of the input that one group of operations depends on.   *)
(***************************************************************************)
SeqsDe(S, lo, hi) == UNION {[1..n -> S] : n \in lo..hi}

ColsPosAddress == {"point_of_sale_id", "address"}
ColsPedidos == {"point_of_sale_id", "order_id", "super_catalog_id", "unidades_pedidas",
                "precio_minimo", "valor_vendedor", "vendor_id"}
ColsProveedores == {"vendor_id", "name", "super_catalog_id", "base_price", "percentage"}
ColsVendorsPos == {"vendor_id", "point_of_sale_id", "status"}

Drogueria == 9     \* the vendor_id of the incumbent on every order line

Pedido(pos, order, producto, unidades, precio, valor) ==
    [point_of_sale_id |-> pos, order_id |-> order, super_catalog_id |-> producto,
     unidades_pedidas |-> unidades, precio_minimo |-> precio,
     valor_vendedor |-> valor, vendor_id |-> Drogueria]

Proveedor(vendor, zona, producto, base, pct) ==
    [vendor_id |-> vendor, name |-> zona, super_catalog_id |-> producto,
     base_price |-> base, percentage |-> pct]

Relacion(vendor, pos, st) == [vendor_id |-> vendor, point_of_sale_id |-> pos, status |-> st]

Tabla(columns, filas) ==
    DataFrame(columns, [i \in 1..Len(filas) |-> Project(filas[i], columns)])

DirOaxaca == <<"Calle", " ", "5", ",", " ", "Oaxaca", ",", " ", "MX">>
DirJalisco == <<"Av", " ", "1", ",", " ", "Jal.", ",", " ", "MX">>
DirUnSegmento == <<"Downtown">>

PosAddress(dirs) ==
    DataFrame(ColsPosAddress,
              [i \in 1..Len(dirs) |-> [point_of_sale_id |-> dirs[i][1], address |-> dirs[i][2]]])

DireccionesFijas == PosAddress(<< <<1, DirOaxaca>>, <<2, DirJalisco>> >>)

\* (base_price, percentage) giving the unit prices 45, 50, 55 and 110
Precios == { <<50, <<-10>> >>, <<50, NaN>>, <<50, <<10>> >>, <<100, <<10>> >> }

\* a catalog of national rows; the row at position i belongs to vendor i
CatalogoNacional(precios) ==
    Tabla(ColsProveedores,
          [i \in 1..Len(precios) |-> Proveedor(i, Mexico, 1, precios[i][1], precios[i][2])])

\* the session before the first call of load_and_process_data()
SinLlamadas ==
    /\ cargado = FALSE
    /\ fallo = FALSE
    /\ df_original = EmptyDataFrame
    /\ pos_order_stats = EmptyDataFrame
    /\ df_min_purchase = EmptyDataFrame
    /\ df_vendor_dm = EmptyDataFrame
    /\ df_vendors_pos_resultado = EmptyDataFrame
    /\ pos_geo_zones = EmptyDataFrame
    /\ df_proveedores_nacional = EmptyDataFrame
    /\ df_proveedores_regional = EmptyDataFrame
    /\ df_pedidos_proveedores = EmptyDataFrame
    /\ missing_cols = {}
    /\ llamadas = 0
    /\ lecturas = 0
    /\ selectbox_mostrado = FALSE
    /\ fin_script = "inicio"
    /\ df_clasificado = EmptyDataFrame
    /\ pos_vendor_totals = EmptyDataFrame
    /\ selected_pos = 0
    /\ df_vendor_analysis = << >>
    /\ df_producto_analysis = << >>
    /\ error_principal = FALSE

EstadoArchivos(pa, pe, pr, vp, ar) ==
    /\ df_pos_address = pa
    /\ df_pedidos = pe
    /\ df_proveedores = pr
    /\ df_vendors_pos = vp
    /\ archivos = ar
    /\ df_con_precios_minimos_local = EmptyDataFrame
    /\ SinLlamadas

\* the four tables with every file in place
Estado0(pa, pe, pr, vp) == EstadoArchivos(pa, pe, pr, vp, todos_los_archivos)

\* one order line, of -1, 1 or 2 units, against a catalog of up to
\* MaxProveedores national prices; the orders file may lack the column
\* valor_vendedor
InitPrecios ==
    \E unidades \in {-1, 1, 2}, precio \in {50, 100}, valor \in {0, 100},
       conValor \in BOOLEAN, precios \in SeqsDe(Precios, 1, MaxProveedores) :
        /\ conValor \/ valor = 0
        /\ Estado0(DireccionesFijas,
                   Tabla(IF conValor THEN ColsPedidos ELSE ColsPedidos \ {"valor_vendedor"},
                         << Pedido(1, 1, 1, unidades, precio, valor) >>),
                   CatalogoNacional(precios),
                   Tabla(ColsVendorsPos, << >>))

\* up to MaxPedidos order lines of one product, over two points of sale and
\* two orders, against a short catalog
LineasGrupos ==
    {Pedido(pos, order, 1, unidades, precio, 100) :
        pos \in {1, 2}, order \in {1, 2}, unidades \in {1, 2}, precio \in {50, 100}}

CatalogosGrupos ==
    {CatalogoNacional(<< <<50, <<10>> >> >>),
     CatalogoNacional(<< <<50, <<-10>> >>, <<50, <<10>> >> >>),
     CatalogoNacional(<< <<100, <<10>> >>, <<100, NaN>> >>)}

InitGrupos ==
    \E lineas \in SeqsDe(LineasGrupos, 1, MaxPedidos), catalogo \in CatalogosGrupos :
        Estado0(DireccionesFijas, Tabla(ColsPedidos, lineas), catalogo,
                Tabla(ColsVendorsPos, << >>))

\* order lines with and without units, catalogs of national and regional rows
\* of two products, and address tables that resolve, do not resolve or lack
\* the zone of a point of sale
LineasZonas ==
    {Pedido(1, 1, 1, 1, 100, 100), Pedido(2, 1, 1, 1, 100, 100),
     Pedido(2, 1, 1, 0, 100, 100)}

EntradasCatalogo == { <<Mexico, 1>>, <<Mexico, 2>>, << <<"Oaxaca">>, 1>>, << <<"Jalisco">>, 1>> }

CatalogoZonas(entradas) ==
    Tabla(ColsProveedores,
          [i \in 1..Len(entradas) |-> Proveedor(i, entradas[i][1], entradas[i][2], 50, NaN)])

DireccionesZonas ==
    {DireccionesFijas,
     PosAddress(<< <<1, DirOaxaca>> >>),
     PosAddress(<< <<1, DirUnSegmento>>, <<2, DirOaxaca>> >>)}

InitZonas ==
    \E lineas \in SeqsDe(LineasZonas, 1, MaxPedidos),
       entradas \in SeqsDe(EntradasCatalogo, 1, MaxProveedores),
       direcciones \in DireccionesZonas :
        Estado0(direcciones, Tabla(ColsPedidos, lineas), CatalogoZonas(entradas),
                Tabla(ColsVendorsPos, << >>))

\* the vendor-POS relations and the presence of the column vendor_id in the
\* orders file and in the catalog
Relaciones == {Relacion(v, pos, st) : v \in {1, 2}, pos \in {1, 2}, st \in {1, 3}}

PedidosStatus ==
    { << Pedido(1, 1, 1, 1, 100, 100) >>,
      << Pedido(1, 1, 1, 2, 50, 100), Pedido(2, 2, 1, 1, 100, 100) >> }

CatalogosStatus ==
    {CatalogoNacional(<< <<50, <<-10>> >>, <<100, <<10>> >> >>),
     CatalogoNacional(<< <<100, <<10>> >>, <<50, <<10>> >> >>)}

InitStatus ==
    \E relaciones \in SeqsDe(Relaciones, 0, MaxRelaciones),
       lineas \in PedidosStatus, catalogo \in CatalogosStatus,
       pedidosConVendor \in BOOLEAN, catalogoConVendor \in BOOLEAN :
        Estado0(DireccionesFijas,
                Tabla(IF pedidosConVendor THEN ColsPedidos ELSE ColsPedidos \ {"vendor_id"}, lineas),
                IF catalogoConVendor THEN catalogo ELSE drop(catalogo, "vendor_id"),
                Tabla(ColsVendorsPos, relaciones))

\* one order line of 1 unit with incumbent price and total 100, against a
\* national entry priced 110 and one or two entries whose savings are at, just
\* below and just above 5, 10, 15 and 20 per cent
PreciosUmbral == { <<100, <<-pct>> >> : pct \in {4, 5, 6, 10, 11, 15, 16, 20, 21} }

InitUmbrales ==
    \E precios \in SeqsDe(PreciosUmbral, 1, 2) :
        Estado0(DireccionesFijas,
                Tabla(ColsPedidos, << Pedido(1, 1, 1, 1, 100, 100) >>),
                CatalogoNacional(<< <<100, <<10>> >> >> \o precios),
                Tabla(ColsVendorsPos, << >>))

\* one order line at point of sale 1, whose address is written with the
\* separator ', ', with a comma alone, with two blanks after the comma, with
\* a blank before the comma, with an abbreviation, with a zone of two words,
\* or is a single segment; the catalog has a national and a regional entry
DirSinBlanco == <<"Calle", " ", "5", ",", "Oaxaca", ",", "MX">>
DirDosBlancos == <<"Calle", " ", "5", ",", " ", " ", "Oaxaca", ",", " ", "MX">>
DirBlancoAntes == <<"Calle", " ", "5", ",", " ", "Oaxaca", " ", ",", " ", "MX">>
DirDosSegmentos == <<"Oaxaca", ",", " ", "MX">>
DirDosPalabras == <<"Calle", " ", "5", ",", " ", "Nuevo", " ", "León", ",", " ", "MX">>
DirAbreviaturaLarga == <<"Calle", " ", "5", ",", " ", "Col.", " ", "Jal.", ",", " ", "MX">>

Direcciones ==
    {DirOaxaca, DirJalisco, DirUnSegmento, DirSinBlanco, DirDosBlancos, DirBlancoAntes,
     DirDosSegmentos, DirDosPalabras, DirAbreviaturaLarga}

ZonasCatalogo == {<<"Oaxaca">>, <<"Jalisco">>, <<"Jal.">>, <<"Nuevo", " ", "León">>}

InitDirecciones ==
    \E direccion \in Direcciones, zona \in ZonasCatalogo, unidades \in {1, 2} :
        Estado0(PosAddress(<< <<1, direccion>>, <<2, DirJalisco>> >>),
                Tabla(ColsPedidos, << Pedido(1, 1, 1, unidades, 100, 100) >>),
                Tabla(ColsProveedores,
                      << Proveedor(1, Mexico, 1, 100, <<10>>), Proveedor(2, zona, 1, 50, NaN) >>),
                Tabla(ColsVendorsPos, << >>))

\* the runs that may fail: one file absent, the orders without the column
\* unidades_pedidas, the relation table without the column status (read only
\* when the status merge is done, so when the catalog has no vendor_id), and
\* a catalog row whose base_price or percentage is text that is no number,
\* for the product ordered, for a product not ordered, or for another zone
Ausencias == {{}} \cup {{f} : f \in todos_los_archivos}

FilasNoNumericas ==
    {Proveedor(3, Mexico, 1, TextoNoNumerico, <<10>>),
     Proveedor(3, Mexico, 2, TextoNoNumerico, <<10>>),
     Proveedor(3, <<"Jalisco">>, 1, TextoNoNumerico, <<10>>),
     Proveedor(3, Mexico, 1, 50, <<TextoNoNumerico>>),
     Proveedor(3, Mexico, 2, 50, <<TextoNoNumerico>>)}

FilasExtra == {<< >>} \cup {<<f>> : f \in FilasNoNumericas}

InitFallos ==
    \E ausentes \in Ausencias, extra \in FilasExtra,
       conUnidades \in BOOLEAN, conStatus \in BOOLEAN, catalogoConVendor \in BOOLEAN :
        EstadoArchivos(
            DireccionesFijas,
            Tabla(IF conUnidades THEN ColsPedidos ELSE ColsPedidos \ {"unidades_pedidas"},
                  << Pedido(1, 1, 1, 1, 100, 100) >>),
            Tabla(IF catalogoConVendor THEN ColsProveedores ELSE ColsProveedores \ {"vendor_id"},
                  << Proveedor(1, Mexico, 1, 50, <<-10>>), Proveedor(2, Mexico, 1, 100, <<10>>) >>
                    \o extra),
            Tabla(IF conStatus THEN ColsVendorsPos ELSE ColsVendorsPos \ {"status"},
                  << Relacion(1, 1, 1) >>),
            todos_los_archivos \ ausentes)

\* one order of product 1 with lines of 1 or 2 units at the points of sale 1
\* (Oaxaca) and 2 (Jalisco), against catalogs whose regional prices differ
\* between the two zones; every catalog has the national price 110, above the
\* incumbent price 100
LineasRegiones ==
    {Pedido(pos, 1, 1, unidades, 100, 100 * unidades) : pos \in {1, 2}, unidades \in {1, 2}}

CatalogosRegiones ==
    {Tabla(ColsProveedores,
           << Proveedor(1, <<"Oaxaca">>, 1, 50, <<10>>),
              Proveedor(2, <<"Jalisco">>, 1, 50, <<-10>>),
              Proveedor(3, Mexico, 1, 100, <<10>>) >>),
     Tabla(ColsProveedores,
           << Proveedor(1, <<"Oaxaca">>, 1, 50, <<-10>>),
              Proveedor(2, <<"Oaxaca">>, 1, 50, <<10>>),
              Proveedor(3, Mexico, 1, 100, <<10>>) >>),
     Tabla(ColsProveedores,
           << Proveedor(1, Mexico, 1, 50, <<10>>),
              Proveedor(2, Mexico, 1, 50, <<-10>>),
              Proveedor(3, Mexico, 1, 100, <<10>>) >>)}

InitRegiones ==
    \E lineas \in SeqsDe(LineasRegiones, 1, MaxPedidos), catalogo \in CatalogosRegiones :
        Estado0(DireccionesFijas, Tabla(ColsPedidos, lineas), catalogo,
                Tabla(ColsVendorsPos, << Relacion(1, 1, 1) >>))

\* the tables given to agregar_columna_clasificacion when it is called on its
\* own: one or two rows of one (order, product) pair, and the columns of a
\* candidate table with any of the four required columns left out
ColsCandidatos == {"point_of_sale_id"} \cup required_cols

FilasCandidatas ==
    {[point_of_sale_id |-> pos, order_id |-> 1, super_catalog_id |-> 1,
      precio_minimo |-> 100, precio_vendedor |-> pv] : pos \in 1..2, pv \in {90, 110}}

EntradasClasificador ==
    {Tabla(ColsCandidatos \ faltan, filas) :
        faltan \in SUBSET required_cols,
        filas \in SeqsDe(FilasCandidatas, 1, MaxFilasClasificador)}

InitClasificador ==
    /\ df_pos_address = EmptyDataFrame
    /\ df_pedidos = EmptyDataFrame
    /\ df_proveedores = EmptyDataFrame
    /\ df_vendors_pos = EmptyDataFrame
    /\ archivos = {}
    /\ df_con_precios_minimos_local \in EntradasClasificador
    /\ SinLlamadas

Init ==
    \/ InitPrecios
    \/ InitGrupos
    \/ InitZonas
    \/ InitStatus
    \/ InitUmbrales
    \/ InitDirecciones
    \/ InitFallos
    \/ InitRegiones

(***************************************************************************)
(* The operations.                                                         *)
(***************************************************************************)
\* @st.cache_data on a function without arguments (line 363): the cache
\* holds an entry once the function has returned, from its return statement
\* or from its except branch
cache_hit_mut(c, f) == c

cache_hit(c, f) == c \/ f

\* the entry that the cache holds
entrada_cache ==
    [pos_vendor_totals |-> pos_vendor_totals, df_original |-> df_original,
     pos_order_stats |-> pos_order_stats, df_min_purchase |-> df_min_purchase,
     df_vendor_dm |-> df_vendor_dm, pos_geo_zones |-> pos_geo_zones,
     df_clasificado |-> df_clasificado, df_vendors_pos |-> df_vendors_pos_resultado]

\* the call of load_and_process_data() at line 516, the first statement of
\* every script run: with an entry in the cache the entry is returned and
\* the body does not run; without one the body runs, the try block to its
\* return statement or the except branch, and its result is stored
load_and_process_data ==
    /\ llamadas' = llamadas + 1
    /\ \E hit \in {cache_hit(cargado, fallo)} :
       \E falla \in {IF hit THEN fallo
                     ELSE falla_load(archivos, df_pos_address, df_pedidos, df_proveedores,
                                     df_vendors_pos)} :
       \E candidatos \in {IF hit THEN df_pedidos_proveedores
                           ELSE IF falla THEN EmptyDataFrame
                           ELSE calcular_pedidos_proveedores(
                                    df_pedidos, df_proveedores,
                                    calcular_pos_geo_zones(df_pos_address))} :
       \E con_status \in {IF hit THEN EmptyDataFrame
                           ELSE merge_status(candidatos, df_vendors_pos)} :
       \E local \in {IF hit THEN df_con_precios_minimos_local
                      ELSE unir_precios_minimos(con_status)} :
       \E r \in {IF hit THEN entrada_cache
                  ELSE IF falla THEN resultado_vacio
                  ELSE resultado_completo(archivos, df_pos_address, df_pedidos,
                                          clasificar_local(con_status, local),
                                          df_vendors_pos)} :
          /\ lecturas' = IF hit THEN lecturas ELSE lecturas + 1
          /\ cargado' = IF hit THEN cargado ELSE ~falla
          /\ fallo' = falla
          /\ pos_vendor_totals' = r.pos_vendor_totals
          /\ df_original' = r.df_original
          /\ pos_order_stats' = r.pos_order_stats
          /\ df_min_purchase' = r.df_min_purchase
          /\ df_vendor_dm' = r.df_vendor_dm
          /\ pos_geo_zones' = r.pos_geo_zones
          /\ df_clasificado' = r.df_clasificado
          /\ df_vendors_pos_resultado' = r.df_vendors_pos
          /\ df_proveedores_nacional' =
                IF hit THEN df_proveedores_nacional
                ELSE IF falla THEN EmptyDataFrame
                ELSE separar_nacional(normalizar_proveedores(df_proveedores))
          /\ df_proveedores_regional' =
                IF hit THEN df_proveedores_regional
                ELSE IF falla THEN EmptyDataFrame
                ELSE separar_regional(normalizar_proveedores(df_proveedores))
          /\ df_pedidos_proveedores' = candidatos
          /\ df_con_precios_minimos_local' = local
          /\ missing_cols' = IF hit THEN missing_cols ELSE columnas_faltantes(local)

\* the places where a rerun request cuts a script run, each an st.* call:
\* the title of lines 10-11, before the call of line 516; the header of
\* line 519, after the call; past the selectbox of line 525; past the
\* per-vendor summary of line 685; the st.error of line 1029, in the except
\* branch.  The loader itself makes no st.* call: its one warning (line 104)
\* needs a missing column, and the loader calls the classifier only with
\* every required column.
PuntosDeCorte == {"titulo", "llamada", "seleccion", "tab1", "except"}

\* st.selectbox(options=pos_list): the first option until the user has had
\* the selectbox on the page, then any option
valores_selectbox(opciones, mostrado) ==
    IF mostrado THEN opciones ELSE {SetMin(opciones)}

\* the script after the call of line 516, on the tables the call returned,
\* with the selectbox at pos, to the place hasta: the selectbox of line 525,
\* tab1 (lines 618-685) and tab2 (lines 832-894)
mostrar_pagina(pos, hasta) ==
    /\ fin_script' = hasta
    /\ \E opciones \in {pos_list(pos_vendor_totals')} :
          IF hasta = "llamada" \/ opciones = {}
          THEN /\ hasta \in {"llamada", "fin"}
               /\ pos = 0
               /\ selected_pos' = 0
               /\ selectbox_mostrado' = selectbox_mostrado
               /\ df_vendor_analysis' = << >>
               /\ df_producto_analysis' = << >>
               /\ error_principal' = FALSE
          ELSE /\ pos \in valores_selectbox(opciones, selectbox_mostrado)
               /\ pos # 0
               /\ selected_pos' = pos
               /\ selectbox_mostrado' = TRUE
               /\ IF hasta = "seleccion"
                  THEN /\ df_vendor_analysis' = << >>
                       /\ df_producto_analysis' = << >>
                       /\ error_principal' = FALSE
                  ELSE \E df_pos \in {filter(df_clasificado',
                                             LAMBDA r : r["point_of_sale_id"] = pos)} :
                       \E hay_tabs \in {df_clasificado'.rows # << >> /\ df_pos.rows # << >>} :
                       \E error_tab1 \in {hay_tabs /\ falla_tab1(df_pos,
                                                                  df_vendors_pos_resultado')} :
                       \E error_tab2 \in {hay_tabs /\ ~error_tab1 /\ falla_tab2(df_pos)} :
                          /\ hasta = "tab1" => (hay_tabs /\ ~error_tab1)
                          /\ hasta = "except" => (error_tab1 \/ error_tab2)
                          /\ error_principal' = (hasta = "fin" /\ (error_tab1 \/ error_tab2))
                          /\ df_vendor_analysis' \in
                                sort_values_desc(
                                    vendor_analysis(df_clasificado', pos,
                                                    df_vendors_pos_resultado'),
                                    "Ahorro Potencial")
                          /\ df_producto_analysis' \in
                                sort_values_desc(
                                    IF hasta = "tab1" \/ error_tab1 THEN << >>
                                    ELSE producto_analysis(df_clasificado', pos),
                                    "Ahorro con Mejor Vendor")

\* a script run cut at the title: the call of line 516 is not reached and
\* the run leaves no selection and no summary
cortar_en_titulo ==
    /\ fin_script' = "titulo"
    /\ selected_pos' = 0
    /\ df_vendor_analysis' = << >>
    /\ df_producto_analysis' = << >>
    /\ error_principal' = FALSE
    /\ UNCHANGED <<cargado, fallo, resultados, locales, llamadas, lecturas,
                   selectbox_mostrado>>

\* one run of the script (lines 10-1040): cut at the title, or the call of
\* line 516 and then the page
script_run ==
    /\ \/ cortar_en_titulo
       \/ /\ llamadas < MaxLlamadas
          /\ load_and_process_data
          /\ \E pos \in 0..2, hasta \in (PuntosDeCorte \ {"titulo"}) \cup {"fin"} :
                mostrar_pagina(pos, hasta)
    /\ UNCHANGED inputs

\* between two runs of the script a file is put in place or taken away
modificar_archivos ==
    /\ llamadas > 0
    /\ \E f \in todos_los_archivos :
          archivos' = IF f \in archivos THEN archivos \ {f} ELSE archivos \cup {f}
    /\ UNCHANGED <<df_pos_address, df_pedidos, df_proveedores, df_vendors_pos,
                   cargado, fallo, resultados, llamadas, lecturas, locales,
                   selected_pos, selectbox_mostrado, fin_script, df_vendor_analysis,
                   df_producto_analysis, error_principal>>

\* agregar_columna_clasificacion called on the table of the state
clasificar_tabla ==
    /\ df_clasificado = EmptyDataFrame
    /\ df_con_precios_minimos_local # EmptyDataFrame
    /\ df_clasificado' = agregar_columna_clasificacion(df_con_precios_minimos_local)
    /\ missing_cols' = columnas_faltantes(df_con_precios_minimos_local)
    /\ UNCHANGED <<inputs, cargado, fallo, pos_vendor_totals, df_original,
                   pos_order_stats, df_min_purchase, df_vendor_dm, pos_geo_zones,
                   df_vendors_pos_resultado, df_proveedores_nacional,
                   df_proveedores_regional, df_pedidos_proveedores,
                   df_con_precios_minimos_local, llamadas, lecturas, selected_pos,
                   selectbox_mostrado, fin_script, df_vendor_analysis,
                   df_producto_analysis, error_principal>>

Next == script_run

Spec == Init /\ [][Next]_vars

\* a session in which the script is rerun and the files change between runs
InitSesion == InitFallos

NextSesion ==
    \/ Next
    \/ modificar_archivos

SpecSesion == InitSesion /\ [][NextSesion]_vars

\* agregar_columna_clasificacion as a function of its argument
NextClasificador == clasificar_tabla

SpecClasificador == InitClasificador /\ [][NextClasificador]_vars

(***************************************************************************)
(* Properties.                                                             *)
(***************************************************************************)
Filas == df_clasificado.rows

Clasificadas == cargado /\ "clasificacion" \in df_clasificado.cols

\* the rows the classifier puts in one group with row i: same order, same product
GrupoDe(i) ==
    {j \in 1..Len(Filas) : /\ Filas[j]["order_id"] = Filas[i]["order_id"]
                           /\ Filas[j]["super_catalog_id"] = Filas[i]["super_catalog_id"]}

\* the rows of the same point of sale, order and product as row i
GrupoPosDe(i) ==
    {j \in GrupoDe(i) : Filas[j]["point_of_sale_id"] = Filas[i]["point_of_sale_id"]}

PrimeraDe(G) == CHOOSE j \in G : \A k \in G : j <= k

\* C1 (as amended): every row is labelled by comparing UNIT prices inside its
\* (order_id, super_catalog_id) group: 'Precio droguería minimo' when the
\* precio_minimo read for the group (the one of its first row) is strictly
\* less than the row's unit vendor price precio_vendedor; otherwise 'Precio
\* vendor minimo' when precio_vendedor is the least precio_vendedor of the
\* group; otherwise 'Precio vendor no minimo'.
C1_ClasificaPorPrecioUnitario ==
    Clasificadas =>
        \A i \in 1..Len(Filas) :
            LET G == GrupoDe(i)
                incumbente == Filas[PrimeraDe(G)]["precio_minimo"]
                pv == Filas[i]["precio_vendedor"]
                esMinimo == \A j \in G : pv <= Filas[j]["precio_vendedor"]
            IN /\ (Filas[i]["clasificacion"] = DrogueriaMinimo) <=> (incumbente < pv)
               /\ (Filas[i]["clasificacion"] = VendorMinimo) <=> (~(incumbente < pv) /\ esMinimo)
               /\ (Filas[i]["clasificacion"] = VendorNoMinimo) <=> (~(incumbente < pv) /\ ~esMinimo)

\* C1, witness: an order line of 2 units with incumbent price 100 and unit
\* vendor prices 45, 55 and 110 (totals 90, 110, 220) is labelled vendor
\* minimum, vendor non-minimum (although its total 110 exceeds 100) and
\* incumbent minimum.
C1_Testigo ==
    /\ Clasificadas
    /\ \E i, j, k \in 1..Len(Filas) :
        /\ GrupoDe(i) = {i, j, k}
        /\ \A n \in {i, j, k} : Filas[n]["unidades_pedidas"] = 2 /\ Filas[n]["precio_minimo"] = 100
        /\ Filas[i]["precio_vendedor"] = 45 /\ Filas[i]["clasificacion"] = VendorMinimo
        /\ Filas[j]["precio_total_vendedor"] = 110 /\ Filas[j]["clasificacion"] = VendorNoMinimo
        /\ Filas[k]["precio_vendedor"] = 110 /\ Filas[k]["clasificacion"] = DrogueriaMinimo

\* C1 (as stated): every row is labelled by comparing TOTAL prices:
\* incumbent minimum when the incumbent price of the group is strictly less
\* than units_ordered x unit vendor price; otherwise vendor minimum when the
\* row's total is the least total of the group; otherwise vendor non-minimum.
C1_ClasificaPorPrecioTotal ==
    Clasificadas =>
        \A i \in 1..Len(Filas) :
            LET G == GrupoPosDe(i)
                total == Filas[i]["unidades_pedidas"] * Filas[i]["precio_vendedor"]
                drogueria == \E j \in G : Filas[j]["precio_minimo"] < total
                esMinimo == \A j \in G :
                    total <= Filas[j]["unidades_pedidas"] * Filas[j]["precio_vendedor"]
            IN Filas[i]["clasificacion"] =
                   IF drogueria THEN DrogueriaMinimo
                   ELSE IF esMinimo THEN VendorMinimo ELSE VendorNoMinimo

\* C2 (as stated): the incumbent price compared is the minimum of
\* precio_minimo over all the rows of the group: in a group of one point of
\* sale, a row is incumbent minimum exactly when the least precio_minimo of
\* the group is below its vendor price, whichever row comes first.
C2_PrecioMinimoDelGrupo ==
    Clasificadas =>
        \A i \in 1..Len(Filas) :
            (GrupoDe(i) = GrupoPosDe(i)) =>
                ((Filas[i]["clasificacion"] = DrogueriaMinimo)
                    <=> (\E j \in GrupoDe(i) :
                            Filas[j]["precio_minimo"] < Filas[i]["precio_vendedor"]))

\* C3: a row whose vendor price equals the incumbent price of its group (the
\* one the comparison reads, or the least of the group) is never incumbent
\* minimum; when its price is also the least vendor price of the group it is
\* vendor minimum.
C3_EmpateNoEsDrogueria ==
    Clasificadas =>
        \A i \in 1..Len(Filas) :
            LET G == GrupoDe(i)
                pv == Filas[i]["precio_vendedor"]
                empate == \/ pv = Filas[PrimeraDe(G)]["precio_minimo"]
                          \/ /\ \E j \in G : pv = Filas[j]["precio_minimo"]
                             /\ \A j \in G : pv <= Filas[j]["precio_minimo"]
            IN empate =>
                /\ Filas[i]["clasificacion"] # DrogueriaMinimo
                /\ (\A j \in G : pv <= Filas[j]["precio_vendedor"])
                        => Filas[i]["clasificacion"] = VendorMinimo

\* C3, witness: a row priced exactly at the incumbent price 100, the least
\* vendor price of its group, labelled vendor minimum, next to a dearer row.
C3_Testigo ==
    /\ Clasificadas
    /\ \E i \in 1..Len(Filas) :
        /\ Filas[i]["precio_vendedor"] = 100
        /\ \A j \in GrupoDe(i) : Filas[j]["precio_minimo"] = 100
        /\ \E j \in GrupoDe(i) : Filas[j]["precio_vendedor"] > 100
        /\ Filas[i]["clasificacion"] = VendorMinimo

\* C4 (as stated): rows of different points of sale are classified
\* independently: the label of a row is decided by the rows of its own
\* (point_of_sale_id, order_id, super_catalog_id) group alone.
C4_GruposPorPos ==
    Clasificadas =>
        \A i \in 1..Len(Filas) :
            LET G == GrupoPosDe(i)
                incumbente == Filas[PrimeraDe(G)]["precio_minimo"]
                pv == Filas[i]["precio_vendedor"]
                esMinimo == \A j \in G : pv <= Filas[j]["precio_vendedor"]
            IN Filas[i]["clasificacion"] =
                   IF incumbente < pv THEN DrogueriaMinimo
                   ELSE IF esMinimo THEN VendorMinimo ELSE VendorNoMinimo

Candidatos == df_pedidos_proveedores.rows

\* the name, in the candidate table, of the vendor_id column of the orders
\* file and of the catalog
ColVendorPedido == IF "vendor_id" \in df_proveedores.cols THEN "vendor_id_x" ELSE "vendor_id"

ColVendorCatalogo == IF "vendor_id" \in df_pedidos.cols THEN "vendor_id_y" ELSE "vendor_id"

\* candidate row c carries the fields of order line o
EsDeLinea(c, o) ==
    /\ \A col \in df_pedidos.cols \ {"vendor_id"} : c[col] = o[col]
    /\ ("vendor_id" \in df_pedidos.cols) => c[ColVendorPedido] = o["vendor_id"]

\* candidate row c carries the fields of catalog entry e
EsDeEntrada(c, e) ==
    /\ c["super_catalog_id"] = e["super_catalog_id"]
    /\ c["name"] = e["name"]
    /\ c["base_price"] = e["base_price"]
    /\ (e["percentage"] = NaN /\ c["percentage"] = 0) \/ e["percentage"] = <<c["percentage"]>>
    /\ ("vendor_id" \in df_proveedores.cols) => c[ColVendorCatalogo] = e["vendor_id"]

\* the pairing the spec admits: units ordered, same product, and a national
\* entry or a regional entry of the zone resolved for the point of sale
Admisible(o, e) ==
    /\ o["unidades_pedidas"] > 0
    /\ o["super_catalog_id"] = e["super_catalog_id"]
    /\ \/ e["name"] = Mexico
       \/ \E z \in 1..Len(pos_geo_zones.rows) :
            /\ pos_geo_zones.rows[z]["point_of_sale_id"] = o["point_of_sale_id"]
            /\ pos_geo_zones.rows[z]["geo_zone"] = e["name"]

\* C5: the candidate offers are exactly the admissible pairings: one row per
\* (order line with units > 0, national entry of its product) and per
\* (order line with units > 0, regional entry of its product and of the
\* zone of its point of sale), and no other row.
C5_ParesAdmisibles ==
    cargado =>
        /\ \A i \in 1..Len(df_pedidos.rows), k \in 1..Len(df_proveedores.rows) :
            LET o == df_pedidos.rows[i]
                e == df_proveedores.rows[k]
            IN Cardinality({n \in 1..Len(Candidatos) :
                                EsDeLinea(Candidatos[n], o) /\ EsDeEntrada(Candidatos[n], e)})
               = IF Admisible(o, e)
                 THEN Cardinality({j \in 1..Len(df_pedidos.rows) : df_pedidos.rows[j] = o})
                        * Cardinality({j \in 1..Len(df_proveedores.rows) : df_proveedores.rows[j] = e})
                 ELSE 0
        /\ Len(Candidatos) =
             Cardinality({ik \in (1..Len(df_pedidos.rows)) \X (1..Len(df_proveedores.rows)) :
                             Admisible(df_pedidos.rows[ik[1]], df_proveedores.rows[ik[2]])})

\* C5, witness: one order line at a point of sale of zone Oaxaca, a catalog
\* of 1 national entry, 1 entry of Oaxaca and 1 of Jalisco for its product:
\* exactly 2 candidate offers.
C5_Testigo ==
    /\ cargado
    /\ Len(df_pedidos.rows) = 1
    /\ \E z \in 1..Len(pos_geo_zones.rows) :
        /\ pos_geo_zones.rows[z]["point_of_sale_id"] = df_pedidos.rows[1]["point_of_sale_id"]
        /\ pos_geo_zones.rows[z]["geo_zone"] = <<"Oaxaca">>
    /\ Len(df_proveedores.rows) = 3
    /\ \A k \in 1..3 : df_proveedores.rows[k]["super_catalog_id"] = df_pedidos.rows[1]["super_catalog_id"]
    /\ Cardinality({k \in 1..3 : df_proveedores.rows[k]["name"] = Mexico}) = 1
    /\ Cardinality({k \in 1..3 : df_proveedores.rows[k]["name"] = <<"Oaxaca">>}) = 1
    /\ Cardinality({k \in 1..3 : df_proveedores.rows[k]["name"] = <<"Jalisco">>}) = 1
    /\ Len(Candidatos) = 2

SinPorcentaje(r) == Project(r, df_proveedores.cols \ {"percentage"})

Veces(filas, r) ==
    Cardinality({n \in 1..Len(filas) : SinPorcentaje(filas[n]) = SinPorcentaje(r)})

\* C6: the split is a partition: every catalog row is in exactly one of the
\* National and the Regional subset, and in the National one if and only if
\* its name is 'México'.
C6_ParticionCatalogo ==
    cargado =>
        /\ Len(df_proveedores_nacional.rows) + Len(df_proveedores_regional.rows)
              = Len(df_proveedores.rows)
        /\ \A k \in 1..Len(df_proveedores.rows) :
            LET e == df_proveedores.rows[k]
            IN /\ Veces(df_proveedores_nacional.rows, e) + Veces(df_proveedores_regional.rows, e)
                    = Veces(df_proveedores.rows, e)
               /\ (e["name"] = Mexico) => Veces(df_proveedores_regional.rows, e) = 0
               /\ (e["name"] # Mexico) => Veces(df_proveedores_nacional.rows, e) = 0

\* C6, witness: a catalog with entries of both kinds, the national ones of
\* two products, split into two non-empty subsets.
C6_Testigo ==
    /\ cargado
    /\ df_proveedores_regional.rows # << >>
    /\ \E a, b \in 1..Len(df_proveedores_nacional.rows) :
        df_proveedores_nacional.rows[a]["super_catalog_id"]
            # df_proveedores_nacional.rows[b]["super_catalog_id"]

\* C7: the unit vendor price of every candidate offer is
\* base_price + base_price x percentage / 100, the percentage of an entry
\* that has none counting as 0.
C7_PrecioVendedor ==
    cargado =>
        \A n \in 1..Len(Candidatos) :
            \E k \in 1..Len(df_proveedores.rows) :
                LET e == df_proveedores.rows[k]
                    pct == IF e["percentage"] = NaN THEN 0 ELSE e["percentage"][1]
                IN /\ EsDeEntrada(Candidatos[n], e)
                   /\ 100 * Candidatos[n]["precio_vendedor"]
                        = 100 * e["base_price"] + e["base_price"] * pct

\* C7, witness: an offer priced from an entry with base_price 100 and no
\* percentage has unit price 100, next to an offer with a percentage.
C7_Testigo ==
    /\ cargado
    /\ \E n, m \in 1..Len(Candidatos), k \in 1..Len(df_proveedores.rows) :
        /\ df_proveedores.rows[k]["percentage"] = NaN
        /\ df_proveedores.rows[k]["base_price"] = 100
        /\ EsDeEntrada(Candidatos[n], df_proveedores.rows[k])
        /\ Candidatos[n]["precio_vendedor"] = 100
        /\ Candidatos[m]["percentage"] # 0

\* C8: every candidate offer and every classified offer has
\* unidades_pedidas > 0; an order line with unidades_pedidas <= 0 has no
\* offer.
C8_UnidadesPositivas ==
    cargado =>
        /\ \A n \in 1..Len(Candidatos) : Candidatos[n]["unidades_pedidas"] > 0
        /\ \A n \in 1..Len(Filas) : Filas[n]["unidades_pedidas"] > 0
        /\ \A i \in 1..Len(df_pedidos.rows) :
            df_pedidos.rows[i]["unidades_pedidas"] <= 0 =>
                /\ ~\E n \in 1..Len(Candidatos) : EsDeLinea(Candidatos[n], df_pedidos.rows[i])
                /\ ~\E n \in 1..Len(Filas) :
                        \A col \in df_pedidos.cols \ {"vendor_id"} :
                            Filas[n][col] = df_pedidos.rows[i][col]

\* C8, witness: an order line of 0 units and one of 1 unit of the same
\* product, with national entries for it: offers for the second line only.
C8_Testigo ==
    /\ cargado
    /\ \E i, j \in 1..Len(df_pedidos.rows) :
        /\ df_pedidos.rows[i]["unidades_pedidas"] = 0
        /\ df_pedidos.rows[j]["unidades_pedidas"] > 0
        /\ \E k \in 1..Len(df_proveedores.rows) :
            /\ df_proveedores.rows[k]["name"] = Mexico
            /\ df_proveedores.rows[k]["super_catalog_id"] = df_pedidos.rows[i]["super_catalog_id"]
        /\ \E n \in 1..Len(Filas) : Filas[n]["unidades_pedidas"] > 0

\* classified row f carries every field of candidate offer c
Extiende(f, c) == \A col \in df_pedidos_proveedores.cols : f[col] = c[col]

\* C9 (as stated): when the orders file and the catalog both carry
\* vendor_id, the classified table holds every candidate offer of point of
\* sale p once per relation row of p, with the vendor_id and the status of
\* that relation, and once with status NaN when p has no relation row.
C9_MergeStatus ==
    (cargado /\ "vendor_id" \in df_pedidos.cols /\ "vendor_id" \in df_proveedores.cols
             /\ Candidatos # << >>) =>
        /\ {"vendor_id", "status"} \subseteq df_clasificado.cols
        /\ \A n \in 1..Len(Candidatos) :
            LET c == Candidatos[n]
                veces == Cardinality({m \in 1..Len(Candidatos) : Candidatos[m] = c})
                rels == {m \in 1..Len(df_vendors_pos.rows) :
                            df_vendors_pos.rows[m]["point_of_sale_id"] = c["point_of_sale_id"]}
            IN IF rels = {}
               THEN Cardinality({f \in 1..Len(Filas) :
                        Extiende(Filas[f], c) /\ Filas[f]["status"] = NaN}) = veces
               ELSE \A m \in rels :
                        Cardinality({f \in 1..Len(Filas) :
                            /\ Extiende(Filas[f], c)
                            /\ Filas[f]["vendor_id"] = <<df_vendors_pos.rows[m]["vendor_id"]>>
                            /\ Filas[f]["status"] = <<df_vendors_pos.rows[m]["status"]>>})
                        = veces * Cardinality({k \in rels : df_vendors_pos.rows[k] = df_vendors_pos.rows[m]})

Seleccionado ==
    /\ cargado
    /\ selected_pos # 0
    /\ fin_script = "fin"
    /\ "clasificacion" \in df_clasificado.cols

\* the column that identifies the vendor of a classified row
ColVendor ==
    IF "vendor_id_y" \in df_clasificado.cols THEN "vendor_id_y" ELSE "vendor_id"

\* the vendor-side rows (vendor minimum or vendor non-minimum) of vendor v
\* at the selected point of sale
FilasDeVendor(v) ==
    {n \in 1..Len(Filas) :
        /\ Filas[n]["point_of_sale_id"] = selected_pos
        /\ Filas[n]["clasificacion"] \in {VendorMinimo, VendorNoMinimo}
        /\ ColVendor \in df_clasificado.cols
        /\ IF ColVendor = "vendor_id" THEN Filas[n][ColVendor] = <<v>>
                                      ELSE Filas[n][ColVendor] = v}

\* row n has an incumbent-minimum row of its product and order at the
\* selected point of sale
TieneComparacion(n) ==
    \E m \in 1..Len(Filas) :
        /\ Filas[m]["point_of_sale_id"] = selected_pos
        /\ Filas[m]["super_catalog_id"] = Filas[n]["super_catalog_id"]
        /\ Filas[m]["order_id"] = Filas[n]["order_id"]
        /\ Filas[m]["clasificacion"] = DrogueriaMinimo

VendorsDelModelo == 1..(MaxProveedores + 1)

\* C10: a vendor none of whose vendor-side rows has an incumbent-minimum
\* row of the same product and order at the selected point of sale is not
\* in the per-vendor summary, and every vendor in the summary has a total
\* incumbent value above 0.
C10_ExclusionDeVendors ==
    Seleccionado =>
        /\ \A k \in 1..Len(df_vendor_analysis) :
            df_vendor_analysis[k]["Valor Actual (Droguería)"] > 0
        /\ \A v \in VendorsDelModelo :
            (~\E n \in FilasDeVendor(v) : TieneComparacion(n)) =>
                ~\E k \in 1..Len(df_vendor_analysis) : df_vendor_analysis[k]["Vendor ID"] = v

\* C10, witness: at the selected point of sale one vendor is in the summary
\* and another, which has vendor-side rows but none with a comparison row,
\* is not.
C10_Testigo ==
    /\ Seleccionado
    /\ df_vendor_analysis # << >>
    /\ \E v \in VendorsDelModelo :
        /\ FilasDeVendor(v) # {}
        /\ ~\E n \in FilasDeVendor(v) : TieneComparacion(n)
        /\ ~\E k \in 1..Len(df_vendor_analysis) : df_vendor_analysis[k]["Vendor ID"] = v

\* the incumbent-minimum rows of the product and order of row n at the
\* selected point of sale, in table order
ComparacionesDe(n) ==
    {m \in 1..Len(Filas) :
        /\ Filas[m]["point_of_sale_id"] = selected_pos
        /\ Filas[m]["super_catalog_id"] = Filas[n]["super_catalog_id"]
        /\ Filas[m]["order_id"] = Filas[n]["order_id"]
        /\ Filas[m]["clasificacion"] = DrogueriaMinimo}

\* the incumbent value of the (product, order) pair of row n
ValorIncumbente(n) == Filas[PrimeraDe(ComparacionesDe(n))]["valor_vendedor"]

\* the vendor-side rows of vendor v that have a comparison row
ComparablesDe(v) == {n \in FilasDeVendor(v) : TieneComparacion(n)}

SumaIncumbente(v) ==
    SumSeq([n \in 1..Len(Filas) |-> IF n \in ComparablesDe(v) THEN ValorIncumbente(n) ELSE 0])

SumaVendor(v) ==
    SumSeq([n \in 1..Len(Filas) |->
              IF n \in ComparablesDe(v) THEN Filas[n]["precio_total_vendedor"] ELSE 0])

\* C11: for every vendor v of the per-vendor summary, the incumbent-side
\* value is the sum, over v's vendor-side rows that have an incumbent-minimum
\* row of the same product and order at the selected point of sale, of the
\* incumbent value of that pair; the vendor-side value is the sum of the
\* total vendor price of the same rows; the savings are the difference, and
\* the percentage is 100 x savings / incumbent-side value.  A row without a
\* comparison row adds to neither sum.
C11_SumasPorVendor ==
    Seleccionado =>
        \A k \in 1..Len(df_vendor_analysis) :
            LET e == df_vendor_analysis[k]
                v == e["Vendor ID"]
            IN /\ e["Valor Actual (Droguería)"] = SumaIncumbente(v)
               /\ e["Valor con Vendor"] = SumaVendor(v)
               /\ e["Ahorro Potencial"] = SumaIncumbente(v) - SumaVendor(v)
               /\ e["Porcentaje Ahorro"]
                    = <<100 * (SumaIncumbente(v) - SumaVendor(v)), SumaIncumbente(v)>>

\* C11, witness: a vendor of the summary with a vendor-side row that has a
\* comparison row and another, of a different order, that has none; its
\* incumbent-side value is the incumbent value of the first pair alone.
C11_Testigo ==
    /\ Seleccionado
    /\ \E k \in 1..Len(df_vendor_analysis) :
        LET v == df_vendor_analysis[k]["Vendor ID"]
        IN /\ \E n \in FilasDeVendor(v) : ~TieneComparacion(n)
           /\ Cardinality(ComparablesDe(v)) = 1
           /\ \E n \in ComparablesDe(v) :
                /\ df_vendor_analysis[k]["Valor Actual (Droguería)"] = ValorIncumbente(n)
                /\ df_vendor_analysis[k]["Valor con Vendor"] = Filas[n]["precio_total_vendedor"]

\* classified row f was priced from catalog entry e
PreciadaDe(f, e) ==
    /\ f["super_catalog_id"] = e["super_catalog_id"]
    /\ f["name"] = e["name"]
    /\ f["base_price"] = e["base_price"]
    /\ (e["percentage"] = NaN /\ f["percentage"] = 0) \/ e["percentage"] = <<f["percentage"]>>

\* C12 (as stated): every entry of the per-vendor summary is keyed by a
\* vendor of the catalog, and every offer it aggregates was priced from a
\* catalog row of that vendor, whether the status merge was performed or
\* skipped.
C12_ClaveEsVendorDeCatalogo ==
    Seleccionado =>
        \A k \in 1..Len(df_vendor_analysis) :
            LET v == df_vendor_analysis[k]["Vendor ID"]
            IN /\ "vendor_id" \in df_proveedores.cols
               /\ \A n \in ComparablesDe(v) :
                    \E j \in 1..Len(df_proveedores.rows) :
                        /\ df_proveedores.rows[j]["vendor_id"] = v
                        /\ PreciadaDe(Filas[n], df_proveedores.rows[j])

\* the rows of product p and order o at the selected point of sale
FilasDelPar(p, o) ==
    {n \in 1..Len(Filas) : /\ Filas[n]["point_of_sale_id"] = selected_pos
                            /\ Filas[n]["super_catalog_id"] = p
                            /\ Filas[n]["order_id"] = o}

IncumbentesDelPar(p, o) ==
    {n \in FilasDelPar(p, o) : Filas[n]["clasificacion"] = DrogueriaMinimo}

VendorsDelPar(p, o) ==
    {n \in FilasDelPar(p, o) : Filas[n]["clasificacion"] \in {VendorMinimo, VendorNoMinimo}}

\* the pairs that have an incumbent-minimum row and a vendor-side row
ParesComparables ==
    {par \in {<<Filas[n]["super_catalog_id"], Filas[n]["order_id"]>> : n \in 1..Len(Filas)} :
        IncumbentesDelPar(par[1], par[2]) # {} /\ VendorsDelPar(par[1], par[2]) # {}}

\* C13: when the orders carry the incumbent total (valor_vendedor), the
\* per-product summary has exactly one entry per (product, order) pair of the
\* selected point of sale that has an incumbent-minimum row and a vendor-side
\* row, and no other entry; the best vendor of an entry is a vendor-side row
\* of the pair with the least total vendor price; the savings are the
\* incumbent total minus that total; the percentage is
\* 100 x savings / incumbent total, and 0 when the incumbent total is 0.
C13_ResumenPorProducto ==
    (Seleccionado /\ "valor_vendedor" \in df_pedidos.cols) =>
        /\ \A par \in ParesComparables :
              Cardinality({k \in 1..Len(df_producto_analysis) :
                              /\ df_producto_analysis[k]["Producto ID"] = par[1]
                              /\ df_producto_analysis[k]["Orden ID"] = par[2]}) = 1
        /\ \A k \in 1..Len(df_producto_analysis) :
              LET e == df_producto_analysis[k]
                  p == e["Producto ID"]
                  o == e["Orden ID"]
                  total == Filas[PrimeraDe(IncumbentesDelPar(p, o))]["valor_vendedor"]
              IN /\ <<p, o>> \in ParesComparables
                 /\ e["Precio Total Droguería"] = total
                 /\ \E n \in VendorsDelPar(p, o) :
                        /\ Filas[n]["precio_total_vendedor"] = e["Precio Total Mejor Vendor"]
                        /\ Filas[n][ColVendor] = e["Mejor Vendor ID"]
                        /\ \A m \in VendorsDelPar(p, o) :
                              Filas[n]["precio_total_vendedor"] <= Filas[m]["precio_total_vendedor"]
                 /\ e["Ahorro con Mejor Vendor"] = total - e["Precio Total Mejor Vendor"]
                 /\ e["Porcentaje Ahorro"] =
                        IF total = 0 THEN <<0, 1>>
                        ELSE <<100 * (total - e["Precio Total Mejor Vendor"]), total>>

\* C13, witness: a pair with an incumbent-minimum row and two vendor-side
\* rows of different totals has its one entry, with the lower total.
C13_Testigo ==
    /\ Seleccionado
    /\ \E k \in 1..Len(df_producto_analysis) :
        LET e == df_producto_analysis[k]
        IN /\ e["Opciones Vendors"] = 2
           /\ e["Precio Total Droguería"] > 0
           /\ \E m \in VendorsDelPar(e["Producto ID"], e["Orden ID"]) :
                Filas[m]["precio_total_vendedor"] > e["Precio Total Mejor Vendor"]

\* the two lists as the script builds them, before sort_values
VendorConstruido == vendor_analysis(df_clasificado, selected_pos, df_vendors_pos)

ProductoConstruido ==
    IF error_principal THEN << >> ELSE producto_analysis(df_clasificado, selected_pos)

\* sequence t holds the entries of sequence s, each as often as s does
MismasEntradas(s, t) ==
    /\ Len(s) = Len(t)
    /\ \A i \in 1..Len(s) :
          Cardinality({j \in 1..Len(s) : s[j] = s[i]}) = Cardinality({j \in 1..Len(t) : t[j] = s[i]})

Descendente(t, col) == \A i, j \in 1..Len(t) : i < j => t[i][col] >= t[j][col]

\* entries of equal key are in t in the order they have in s
EmpatesEnOrden(s, t, col) ==
    \A i, j \in 1..Len(s) :
        (i < j /\ s[i][col] = s[j][col]) =>
            \E a, b \in 1..Len(t) : a < b /\ t[a] = s[i] /\ t[b] = s[j]

\* the part of C14 that the sort does guarantee: each summary holds the
\* entries built for the selected point of sale, in descending order of the
\* monetary savings column ('Ahorro Potencial', 'Ahorro con Mejor Vendor')
OrdenDescendente ==
    Seleccionado =>
        /\ MismasEntradas(VendorConstruido, df_vendor_analysis)
        /\ Descendente(df_vendor_analysis, "Ahorro Potencial")
        /\ MismasEntradas(ProductoConstruido, df_producto_analysis)
        /\ Descendente(df_producto_analysis, "Ahorro con Mejor Vendor")

\* C14 (as stated): each summary is in descending order of the savings and
\* entries of equal savings keep the order in which they were built.
C14_OrdenEstable ==
    Seleccionado =>
        /\ Descendente(df_vendor_analysis, "Ahorro Potencial")
        /\ EmpatesEnOrden(VendorConstruido, df_vendor_analysis, "Ahorro Potencial")
        /\ Descendente(df_producto_analysis, "Ahorro con Mejor Vendor")
        /\ EmpatesEnOrden(ProductoConstruido, df_producto_analysis, "Ahorro con Mejor Vendor")

\* the percentage <<numerator, denominator>> is above x per cent
Sobre(porcentaje, x) == porcentaje[1] > x * porcentaje[2]

\* C15 (as amended): in the vendor view a savings percentage above 15 is
\* 'Oportunidad Alta', one above 5 and at most 15 is 'Oportunidad Media', and
\* any other, 5 itself included, is 'Oportunidad Baja'; in the product view
\* a percentage above 20 is 'Alto', one above 10 and at most 20 is 'Medio',
\* and any other, 10 itself included, is 'Bajo'.  Each pair of thresholds is
\* applied in its own view only.
C15_UmbralesEstrictos ==
    Seleccionado =>
        /\ \A k \in 1..Len(df_vendor_analysis) :
              LET e == df_vendor_analysis[k]
              IN e["Clasificación"] =
                    IF Sobre(e["Porcentaje Ahorro"], 15) THEN "Oportunidad Alta"
                    ELSE IF Sobre(e["Porcentaje Ahorro"], 5) THEN "Oportunidad Media"
                    ELSE "Oportunidad Baja"
        /\ \A k \in 1..Len(df_producto_analysis) :
              LET e == df_producto_analysis[k]
              IN e["Tipo Ahorro"] =
                    IF Sobre(e["Porcentaje Ahorro"], 20) THEN "Alto"
                    ELSE IF Sobre(e["Porcentaje Ahorro"], 10) THEN "Medio"
                    ELSE "Bajo"

\* C15, witness: a vendor with savings of exactly 5 per cent labelled
\* 'Oportunidad Baja', a vendor with exactly 20 per cent labelled
\* 'Oportunidad Alta', and the product entry of the same pair, with exactly
\* 20 per cent, labelled 'Medio'.
C15_Testigo ==
    /\ Seleccionado
    /\ \E k \in 1..Len(df_vendor_analysis) :
        /\ df_vendor_analysis[k]["Porcentaje Ahorro"] = <<500, 100>>
        /\ df_vendor_analysis[k]["Clasificación"] = "Oportunidad Baja"
    /\ \E k \in 1..Len(df_vendor_analysis) :
        /\ df_vendor_analysis[k]["Porcentaje Ahorro"] = <<2000, 100>>
        /\ df_vendor_analysis[k]["Clasificación"] = "Oportunidad Alta"
    /\ \E k \in 1..Len(df_producto_analysis) :
        /\ df_producto_analysis[k]["Porcentaje Ahorro"] = <<2000, 100>>
        /\ df_producto_analysis[k]["Tipo Ahorro"] = "Medio"

\* C15 (as stated): in the vendor view 'Oportunidad Media' is a percentage
\* from 5 to 15, both included; in the product view 'Medio' is a percentage
\* from 10 to 20, both included.
C15_UmbralesIncluidos ==
    Seleccionado =>
        /\ \A k \in 1..Len(df_vendor_analysis) :
              LET e == df_vendor_analysis[k]
              IN e["Clasificación"] =
                    IF Sobre(e["Porcentaje Ahorro"], 15) THEN "Oportunidad Alta"
                    ELSE IF e["Porcentaje Ahorro"][1] >= 5 * e["Porcentaje Ahorro"][2]
                         THEN "Oportunidad Media"
                    ELSE "Oportunidad Baja"
        /\ \A k \in 1..Len(df_producto_analysis) :
              LET e == df_producto_analysis[k]
              IN e["Tipo Ahorro"] =
                    IF Sobre(e["Porcentaje Ahorro"], 20) THEN "Alto"
                    ELSE IF e["Porcentaje Ahorro"][1] >= 10 * e["Porcentaje Ahorro"][2]
                         THEN "Medio"
                    ELSE "Bajo"

\* the segments of an address between its commas
RECURSIVE SegmentosPorComa(_, _, _)
SegmentosPorComa(s, i, cur) ==
    IF i > Len(s) THEN <<cur>>
    ELSE IF s[i] = "," THEN <<cur>> \o SegmentosPorComa(s, i + 1, << >>)
    ELSE SegmentosPorComa(s, i + 1, Append(cur, s[i]))

\* a segment without its leading and trailing blanks
RECURSIVE Recortado(_)
Recortado(seg) ==
    IF seg = << >> THEN seg
    ELSE IF Head(seg) = " " THEN Recortado(Tail(seg))
    ELSE IF seg[Len(seg)] = " " THEN Recortado(SubSeq(seg, 1, Len(seg) - 1))
    ELSE seg

\* the zone the claim gives an address: the second-to-last comma-delimited
\* segment, trimmed, and '' for an address of fewer than 2 segments
SegmentoPenultimo(address) ==
    LET segmentos == SegmentosPorComa(address, 1, << >>)
    IN IF Len(segmentos) >= 2 THEN Recortado(segmentos[Len(segmentos) - 1]) ELSE << >>

\* C16 (as stated): the zone extracted for every row of the address table is
\* the second-to-last comma-delimited segment of its address, with the
\* surrounding blanks trimmed, and '' when the address has fewer than 2
\* segments; the zone table holds that zone after the abbreviations are
\* replaced.
C16_SegmentoRecortado ==
    cargado =>
        /\ Len(pos_geo_zones.rows) = Len(df_pos_address.rows)
        /\ \A i \in 1..Len(df_pos_address.rows) :
              /\ obtener_geo_zone(df_pos_address.rows[i]["address"])
                    = SegmentoPenultimo(df_pos_address.rows[i]["address"])
              /\ pos_geo_zones.rows[i]["geo_zone"]
                    = reemplazar_abreviaturas(SegmentoPenultimo(df_pos_address.rows[i]["address"]))

\* C17: in the zone table, a zone extracted from an address that is exactly
\* a key of the abbreviation table is replaced by the full name of the key
\* ('Jal.' by 'Jalisco'); any other extracted zone, one that holds an
\* abbreviation next to other text included, is kept as extracted.
C17_ReemplazoExacto ==
    cargado =>
        \A i \in 1..Len(df_pos_address.rows) :
            LET extraida == obtener_geo_zone(df_pos_address.rows[i]["address"])
                zona == pos_geo_zones.rows[i]["geo_zone"]
            IN /\ pos_geo_zones.rows[i]["point_of_sale_id"]
                    = df_pos_address.rows[i]["point_of_sale_id"]
               /\ (\E k \in DOMAIN abreviaturas : extraida = <<k>>)
                    => zona = abreviaturas[extraida[1]]
               /\ (~\E k \in DOMAIN abreviaturas : extraida = <<k>>) => zona = extraida
               /\ extraida = <<"Jal.">> => zona = <<"Jalisco">>

\* C17, witness: a zone table with 'Jal.' replaced by 'Jalisco' for one point
\* of sale and 'Col. Jal.', which holds the abbreviation, kept for another.
C17_Testigo ==
    /\ cargado
    /\ \E i, j \in 1..Len(pos_geo_zones.rows) :
        /\ obtener_geo_zone(df_pos_address.rows[i]["address"]) = <<"Jal.">>
        /\ pos_geo_zones.rows[i]["geo_zone"] = <<"Jalisco">>
        /\ pos_geo_zones.rows[j]["geo_zone"] = <<"Col.", " ", "Jal.">>

\* C18 (as stated): after a run that the pipeline completes, every point of
\* sale of the address table has exactly one row in the zone table, and the
\* zone of that row is a non-empty string.
C18_ZonaUnicaNoVacia ==
    cargado =>
        \A i \in 1..Len(df_pos_address.rows) :
            LET filas == {z \in 1..Len(pos_geo_zones.rows) :
                            pos_geo_zones.rows[z]["point_of_sale_id"]
                                = df_pos_address.rows[i]["point_of_sale_id"]}
            IN /\ Cardinality(filas) = 1
               /\ \A z \in filas : pos_geo_zones.rows[z]["geo_zone"] # << >>

Llamado == cargado \/ fallo

\* the eight outputs, as the record that load_and_process_data returns
Devuelto ==
    [pos_vendor_totals |-> pos_vendor_totals, df_original |-> df_original,
     pos_order_stats |-> pos_order_stats, df_min_purchase |-> df_min_purchase,
     df_vendor_dm |-> df_vendor_dm, pos_geo_zones |-> pos_geo_zones,
     df_clasificado |-> df_clasificado, df_vendors_pos |-> df_vendors_pos_resultado]

NombresDeResultados == DOMAIN Devuelto

\* some step of the run raises on the inputs of the state
SeLevantaError ==
    falla_load(archivos, df_pos_address, df_pedidos, df_proveedores, df_vendors_pos)

\* C19: a call in which a required file is missing or a step raises returns
\* to the main script without an exception and with the empty placeholder
\* table for each of its eight outputs; a call in which no step raises
\* returns the eight outputs as computed.  No call returns placeholders of a
\* failure for some outputs and computed tables for the others.
C19_TodoONada ==
    Llamado =>
        /\ fallo <=> SeLevantaError
        /\ cargado <=> ~SeLevantaError
        /\ fallo => /\ \A n \in NombresDeResultados : Devuelto[n] = EmptyDataFrame
                    /\ ~error_principal
        /\ cargado => Devuelto = resultado_completo(
                                     archivos, df_pos_address, df_pedidos,
                                     calcular_clasificado(
                                         merge_status(
                                             calcular_pedidos_proveedores(
                                                 df_pedidos, df_proveedores,
                                                 calcular_pos_geo_zones(df_pos_address)),
                                             df_vendors_pos)),
                                     df_vendors_pos)

\* C19, witness: every file is in place and the run raises late, at the
\* status merge, because the relation table has no column status; the
\* eight outputs are the empty table, the zone table included.
C19_Testigo ==
    /\ fallo
    /\ archivos = todos_los_archivos
    /\ "unidades_pedidas" \in df_pedidos.cols
    /\ "status" \notin df_vendors_pos.cols
    /\ \A k \in 1..Len(df_proveedores.rows) :
          /\ df_proveedores.rows[k]["base_price"] # TextoNoNumerico
          /\ df_proveedores.rows[k]["percentage"] # <<TextoNoNumerico>>
    /\ \A n \in NombresDeResultados : Devuelto[n] = EmptyDataFrame

\* C20 (as stated): a run whose catalog has a row with a base_price or a
\* percentage that is no number ends in failure, whether or not the row
\* matches an order line.
C20_NoNumericoFalla ==
    (Llamado /\ \E k \in 1..Len(df_proveedores.rows) :
                    \/ df_proveedores.rows[k]["base_price"] = TextoNoNumerico
                    \/ df_proveedores.rows[k]["percentage"] = <<TextoNoNumerico>>)
        => fallo

(***************************************************************************)
(* The classifier on a table that lacks a required column.                 *)
(***************************************************************************)
Entrada == df_con_precios_minimos_local

ClasificadorLlamado == Entrada # EmptyDataFrame /\ df_clasificado # EmptyDataFrame

FaltaColumnaRequerida == required_cols \ Entrada.cols # {}

\* C21: when agregar_columna_clasificacion is given a table with rows that
\* lacks one or more of order_id, super_catalog_id, precio_minimo and
\* precio_vendedor, it warns, naming the missing columns, and returns the
\* rows of its argument, in their order and with their cells, plus a column
\* clasificacion that is '' on every row; it does not raise.
C21_SinColumnasDevuelveEntrada ==
    (ClasificadorLlamado /\ FaltaColumnaRequerida) =>
        /\ missing_cols = required_cols \ Entrada.cols
        /\ df_clasificado.cols = Entrada.cols \cup {"clasificacion"}
        /\ Len(df_clasificado.rows) = Len(Entrada.rows)
        /\ \A i \in 1..Len(Entrada.rows) :
              /\ Project(df_clasificado.rows[i], Entrada.cols) = Entrada.rows[i]
              /\ df_clasificado.rows[i]["clasificacion"] = ""
        /\ ~fallo /\ ~error_principal

\* C21, witness: two rows without the column precio_vendedor have gone
\* through the classifier and the warning names that column.
C21_Testigo ==
    /\ ClasificadorLlamado
    /\ Len(Entrada.rows) = 2
    /\ Entrada.cols = ColsCandidatos \ {"precio_vendedor"}
    /\ missing_cols = {"precio_vendedor"}

(***************************************************************************)
(* The optional minimum-purchase file.                                     *)
(***************************************************************************)
\* what the body of load_and_process_data() returns on given files
ResultadoDe(ar, pos_address, pedidos, proveedores, vendors_pos) ==
    IF falla_load(ar, pos_address, pedidos, proveedores, vendors_pos)
    THEN resultado_vacio
    ELSE resultado_completo(
             ar, pos_address, pedidos,
             calcular_clasificado(
                 merge_status(
                     calcular_pedidos_proveedores(
                         pedidos, proveedores, calcular_pos_geo_zones(pos_address)),
                     vendors_pos)),
             vendors_pos)

\* what a call returns when the files named in ar exist
ResultadoCon(ar) ==
    ResultadoDe(ar, df_pos_address, df_pedidos, df_proveedores, df_vendors_pos)

SinMinPurchase == "minimum_purchase.csv" \notin archivos

\* C22: a call made while minimum_purchase.csv does not exist fails only if
\* it would fail with the file in place; when it does not fail, its
\* df_min_purchase is the table without rows with the columns vendor_id,
\* name and min_purchase, and each of the other seven outputs is equal to the
\* output of the same call with the file in place.
C22_SinMinPurchase ==
    (Llamado /\ SinMinPurchase) =>
        /\ fallo <=> falla_load(archivos \cup {"minimum_purchase.csv"}, df_pos_address,
                                df_pedidos, df_proveedores, df_vendors_pos)
        /\ cargado => df_min_purchase =
                          DataFrame({"vendor_id", "name", "min_purchase"}, << >>)
        /\ \A n \in NombresDeResultados \ {"df_min_purchase"} :
              Devuelto[n] = ResultadoCon(archivos \cup {"minimum_purchase.csv"})[n]

\* C22, witness: the call has returned without the file and with classified
\* offers, and with the file in place the table would have a row.
C22_Testigo ==
    /\ cargado
    /\ SinMinPurchase
    /\ df_clasificado.rows # << >>
    /\ df_min_purchase.rows = << >>
    /\ ResultadoCon(todos_los_archivos).df_min_purchase.rows # << >>

(***************************************************************************)
(* The status labels of the two summaries.                                 *)
(***************************************************************************)
\* the label that the mapping of the claim gives to a status read from the
\* relation table; NaN is the null status
EtiquetaDeStatus(status) ==
    IF status = NaN THEN "Sin conectar"
    ELSE CASE status[1] = -1 -> "Sin conectar"
           [] status[1] = 0 -> "Rechazado"
           [] status[1] = 1 -> "Activo"
           [] status[1] = 2 -> "Pendiente"
           [] OTHER -> "Status " \o ToString(status[1])

EtiquetasDeLaTabla ==
    {"Sin conectar", "Rechazado", "Activo", "Pendiente", "Sin definir"}
        \cup {"Status " \o ToString(c) : c \in -2..5}

\* C24 (as stated): the Status of every entry of the per-vendor summary is
\* the label of the mapping for the status that the relation table gives to
\* the vendor at the selected point of sale, 'Sin conectar' when it gives
\* none; and the status label of every entry of the per-product summary is
\* a label of the mapping.
C24_EtiquetasDeStatus ==
    Seleccionado =>
        /\ \A k \in 1..Len(df_vendor_analysis) :
              df_vendor_analysis[k]["Status"] =
                  EtiquetaDeStatus(obtener_status_vendor(df_vendor_analysis[k]["Vendor ID"],
                                                         selected_pos, df_vendors_pos))
        /\ \A k \in 1..Len(df_producto_analysis) :
              df_producto_analysis[k]["Status Mejor Vendor"] \in EtiquetasDeLaTabla

(***************************************************************************)
(* The cache of load_and_process_data.                                     *)
(***************************************************************************)
\* what the body of load_and_process_data() computes from the files as they
\* are in the state
ResultadoActual == ResultadoCon(archivos)

HayLlamada == llamadas' > llamadas

\* C25 (as stated): every call of load_and_process_data() returns the
\* result of the snapshot of the input files at the time of the call: the
\* memoized one while the files are as they were read, a recomputed one,
\* with its eight outputs, when the files have changed since.
C25_RecomputaSiCambia ==
    [][HayLlamada =>
          Devuelto' = ResultadoDe(archivos', df_pos_address', df_pedidos',
                                  df_proveedores', df_vendors_pos')]_vars

\* C29: once a call has ended in the except branch, every later call of
\* the session leaves the failure and the eight empty tables in place and
\* does not run the body again, whatever the files are at that time.
C29_FalloMemoizado ==
    [][(fallo /\ HayLlamada) =>
          /\ fallo' /\ ~cargado'
          /\ lecturas' = lecturas
          /\ Devuelto' = resultado_vacio]_vars

\* C29, witness: the first call failed, the files have been put in place so
\* that a run of the body would now succeed, and a later call has been made:
\* the body has run once and the outputs are the empty tables.
C29_Testigo ==
    /\ fallo
    /\ llamadas >= 2
    /\ lecturas = 1
    /\ archivos = todos_los_archivos
    /\ ~SeLevantaError
    /\ ResultadoActual.df_clasificado.rows # << >>
    /\ Devuelto = resultado_vacio

(***************************************************************************)
(* The labels inside one group of the classifier.                          *)
(***************************************************************************)
EtiquetasDe(G) == {Filas[j]["clasificacion"] : j \in G}

\* C26: in every group of the classifier (the rows of one order_id and
\* super_catalog_id) either every row is labelled 'Precio droguería minimo'
\* or some row is labelled 'Precio vendor minimo'; so a row labelled
\* 'Precio vendor no minimo' has a row labelled 'Precio vendor minimo' in its
\* group.
C26_GrupoConVendorMinimo ==
    Clasificadas =>
        \A i \in 1..Len(Filas) :
            /\ EtiquetasDe(GrupoDe(i)) = {DrogueriaMinimo}
                    \/ VendorMinimo \in EtiquetasDe(GrupoDe(i))
            /\ Filas[i]["clasificacion"] = VendorNoMinimo
                    => VendorMinimo \in EtiquetasDe(GrupoDe(i))

\* C26, witness: a group that holds the three labels, its first row being
\* one that the incumbent wins.
C26_Testigo ==
    /\ Clasificadas
    /\ \E i \in 1..Len(Filas) :
          /\ EtiquetasDe(GrupoDe(i)) = {DrogueriaMinimo, VendorMinimo, VendorNoMinimo}
          /\ Filas[PrimeraDe(GrupoDe(i))]["clasificacion"] = DrogueriaMinimo

(***************************************************************************)
(* The best vendor of a per-product entry.                                 *)
(***************************************************************************)
\* the row that idxmin() picks for the pair: the first of the vendor-side
\* rows of the pair that have the least total
ElegidaDelPar(p, o) ==
    PrimeraDe({n \in VendorsDelPar(p, o) :
                  \A m \in VendorsDelPar(p, o) :
                      Filas[n]["precio_total_vendedor"] <= Filas[m]["precio_total_vendedor"]})

\* C27 (as stated): the row chosen as best vendor of every entry of the
\* per-product summary is labelled 'Precio vendor minimo'.
C27_MejorVendorEsMinimo ==
    Seleccionado =>
        \A k \in 1..Len(df_producto_analysis) :
            Filas[ElegidaDelPar(df_producto_analysis[k]["Producto ID"],
                                df_producto_analysis[k]["Orden ID"])]["clasificacion"]
                = VendorMinimo

(***************************************************************************)
(* The groups that the two summaries cover.                                *)
(***************************************************************************)
\* the (product, order) pairs of the selected point of sale that add to an
\* entry of the per-vendor summary or have an entry in the per-product one
ParesDelResumen ==
    {<<df_producto_analysis[k]["Producto ID"], df_producto_analysis[k]["Orden ID"]>> :
        k \in 1..Len(df_producto_analysis)}
    \cup UNION {{<<Filas[n]["super_catalog_id"], Filas[n]["order_id"]>> :
                    n \in ComparablesDe(df_vendor_analysis[k]["Vendor ID"])} :
                k \in 1..Len(df_vendor_analysis)}

\* the offer of row n is priced strictly above the incumbent price of its
\* order line
OfertaSobreIncumbente(n) == Filas[n]["precio_vendedor"] > Filas[n]["precio_minimo"]

\* C28 (as stated): every (product, order) group of the selected point of
\* sale that the per-vendor or the per-product summary covers has an offer
\* priced strictly above the incumbent price and an offer that is not; a
\* group whose offers are all at or below the incumbent price is in neither
\* summary.
C28_SoloGruposMixtos ==
    Seleccionado =>
        \A par \in ParesDelResumen :
            /\ \E n \in FilasDelPar(par[1], par[2]) : OfertaSobreIncumbente(n)
            /\ \E n \in FilasDelPar(par[1], par[2]) : ~OfertaSobreIncumbente(n)

====
